---- MODULE Spec2Model ----
(***************************************************************************)
(* stock-fetcher: the SQLite cache (daily_prices, fetch_log) and the       *)
(* fetch orchestration of fetchStockData, modelled from the Go source.     *)
(*                                                                         *)
(* Encoding.  A calendar date "2006-01-02" is an integer day number (the   *)
(* code compares dates as strings, which for this format is the order of   *)
(* the days).  Wall-clock time is counted in ticks, TicksPerDay to a day;  *)
(* tick 0 of a day is before the day's bar is published.  A price string   *)
(* "%.2f" is its value in cents; a percentage string "%.2f%%" is its value *)
(* in hundredths of a percent; an optional string is <<>> when empty and   *)
(* <<v>> otherwise.  A slice is a sequence.                                *)
(***************************************************************************)
EXTENDS Integers, Sequences, FiniteSets, TLC

\* ------------------------------------------------------------------ bounds
TicksPerDay == 2     \* clock resolution: ticks to a calendar day
StartTick == 23      \* the server starts at this tick (a Friday evening)
Horizon == 4         \* ticks the clock runs on for after the start
LongHorizon == 17    \* the same, in the runs without failures
RaceHorizon == 3     \* the same, in the runs with concurrent requests
MaxRequests == 2     \* fetchStockData calls issued in one behaviour
LongRequests == 3    \* the same, in the runs without failures
MaxFaults == 1       \* storage failures (SQLite errors) in one behaviour
MaxSeries == 3       \* days in a series given to AggregateToPeriods

\* --------------------------------------------------------- program constants
DeltaMargin == 5     \* the "+ 5" of the delta window

Procs == {1, 2}                       \* request goroutines of the HTTP server
Symbols == {"AAPL"}                   \* cache keys (upper-cased symbols)
RequestDays == {1, 8}        \* the days parameter of a request

Nil == [none |-> TRUE]                \* a nil *FetchMeta
NoErr == "nil"                        \* a nil error
Empty == <<>>                         \* the empty string of an optional field
Str(v) == <<v>>

Min(a, b) == IF a < b THEN a ELSE b
DayOf(t) == t \div TicksPerDay        \* time.Format("2006-01-02"), Year/YearDay

\* ----------------------------------------------------------------- float64
\* Go's float64 is IEEE 754 binary64, and its arithmetic is modelled exactly.
\* A natural number of any size is the sequence of its digits (limbs) in base
\* Base, least significant first and without leading zeros.  A float64 is a
\* sign s, a mantissa m of MantBits bits and an exponent e, with the value
\* s * m * 2^e; zero is s = 0.  Every operation rounds to the nearest float64,
\* ties to even.  The values met here stay far from overflow and from the
\* subnormal range.
Base == 32768
LimbBits == 15
MantBits == 53

RECURSIVE Big(_)
Big(n) == IF n = 0 THEN <<>> ELSE <<n % Base>> \o Big(n \div Base)

RECURSIVE Small(_)
Small(a) == IF a = <<>> THEN 0 ELSE Head(a) + Base * Small(Tail(a))

RECURSIVE Trim(_)
Trim(a) ==
    IF a = <<>> THEN <<>>
    ELSE IF a[Len(a)] = 0 THEN Trim(SubSeq(a, 1, Len(a) - 1)) ELSE a

Limb(a, i) == IF i <= Len(a) THEN a[i] ELSE 0

\* limb + a * Base
Push(limb, a) == IF a = <<>> /\ limb = 0 THEN <<>> ELSE <<limb>> \o a

RECURSIVE BigAddFrom(_, _, _, _)
BigAddFrom(a, b, i, carry) ==
    IF i > Len(a) /\ i > Len(b) THEN (IF carry = 0 THEN <<>> ELSE <<carry>>)
    ELSE <<(Limb(a, i) + Limb(b, i) + carry) % Base>>
         \o BigAddFrom(a, b, i + 1, (Limb(a, i) + Limb(b, i) + carry) \div Base)
BigAdd(a, b) == BigAddFrom(a, b, 1, 0)

\* a - b for a >= b
RECURSIVE BigSubFrom(_, _, _, _)
BigSubFrom(a, b, i, borrow) ==
    IF i > Len(a) THEN <<>>
    ELSE <<(a[i] - Limb(b, i) - borrow) % Base>>
         \o BigSubFrom(a, b, i + 1, IF a[i] - Limb(b, i) - borrow < 0 THEN 1 ELSE 0)
BigSub(a, b) == Trim(BigSubFrom(a, b, 1, 0))

\* -1, 0 or 1 as a < b, a = b or a > b
RECURSIVE BigCmpFrom(_, _, _)
BigCmpFrom(a, b, i) ==
    IF i = 0 THEN 0
    ELSE IF a[i] < b[i] THEN -1
    ELSE IF a[i] > b[i] THEN 1
    ELSE BigCmpFrom(a, b, i - 1)
BigCmp(a, b) ==
    IF Len(a) < Len(b) THEN -1
    ELSE IF Len(a) > Len(b) THEN 1
    ELSE BigCmpFrom(a, b, Len(a))

\* a * k for 0 <= k < Base
RECURSIVE BigMulSmallFrom(_, _, _, _)
BigMulSmallFrom(a, k, i, carry) ==
    IF i > Len(a) THEN (IF carry = 0 THEN <<>> ELSE <<carry>>)
    ELSE <<(a[i] * k + carry) % Base>>
         \o BigMulSmallFrom(a, k, i + 1, (a[i] * k + carry) \div Base)
BigMulSmall(a, k) == IF k = 0 THEN <<>> ELSE BigMulSmallFrom(a, k, 1, 0)

\* a * Base^n
ShiftLimbs(a, n) == IF a = <<>> THEN <<>> ELSE [i \in 1..n |-> 0] \o a

RECURSIVE BigMulFrom(_, _, _)
BigMulFrom(a, b, i) ==
    IF i > Len(b) THEN <<>>
    ELSE BigAdd(ShiftLimbs(BigMulSmall(a, b[i]), i - 1), BigMulFrom(a, b, i + 1))
BigMul(a, b) == BigMulFrom(a, b, 1)

\* a * 2^k
BigShl(a, k) == ShiftLimbs(BigMulSmall(a, 2 ^ (k % LimbBits)), k \div LimbBits)

RECURSIVE SmallBitLen(_)
SmallBitLen(n) == IF n = 0 THEN 0 ELSE 1 + SmallBitLen(n \div 2)
BitLen(a) == IF a = <<>> THEN 0 ELSE LimbBits * (Len(a) - 1) + SmallBitLen(a[Len(a)])
IsOdd(a) == a # <<>> /\ a[1] % 2 = 1

\* Long division in base Base (Knuth's algorithm D) by a divisor b whose
\* leading limb is at least Base / 2.  The digit of the quotient estimated from
\* the leading limbs of the remainder r is the true one or exceeds it by at
\* most 2.
BigDivDigit(r, b, qhat) ==
    IF BigCmp(BigMulSmall(b, qhat), r) <= 0 THEN qhat
    ELSE IF BigCmp(BigMulSmall(b, qhat - 1), r) <= 0 THEN qhat - 1
    ELSE qhat - 2
BigDivTake(q, r, b, digit) ==
    [q |-> Push(digit, q), r |-> BigSub(r, BigMulSmall(b, digit))]
BigDivLimb(q, r, b) ==
    BigDivTake(q, r, b,
               BigDivDigit(r, b, Min((Limb(r, Len(b) + 1) * Base + Limb(r, Len(b)))
                                         \div b[Len(b)], Base - 1)))
\* one step: st is the quotient and the remainder of the limbs of the dividend
\* taken so far, limb the next one
BigDivStep(st, limb, b) == BigDivLimb(st.q, Push(limb, st.r), b)
RECURSIVE BigDivFrom(_, _, _)
BigDivFrom(a, b, i) ==
    IF i > Len(a) THEN [q |-> <<>>, r |-> <<>>]
    ELSE BigDivStep(BigDivFrom(a, b, i + 1), a[i], b)

\* the quotient q, of remainder r by the divisor b, rounded to nearest, ties
\* to even
RoundUp(q, half) ==
    IF half > 0 \/ (half = 0 /\ IsOdd(q)) THEN BigAdd(q, <<1>>) ELSE q
RoundQuotient(d, b) == RoundUp(d.q, BigCmp(BigAdd(d.r, d.r), b))
RoundScaled(num, den) == RoundQuotient(BigDivFrom(num, den, 1), den)

\* num / den rounded to the nearest integer, ties to even, for den > 0; both
\* are scaled by the power of 2 that brings den's leading limb to Base / 2
Normalizer(den) == (LimbBits - (BitLen(den) % LimbBits)) % LimbBits
RoundHalfEven(num, den) ==
    RoundScaled(BigShl(num, Normalizer(den)), BigShl(den, Normalizer(den)))

Zero == [s |-> 0, m |-> <<>>, e |-> 0]

\* the float64 of sign s, mantissa m and exponent e, where rounding may have
\* carried m to MantBits + 1 bits
Normal(s, m, e) ==
    IF BitLen(m) > MantBits
    THEN [s |-> s, m |-> BigShl(<<1>>, MantBits - 1), e |-> e + 1]
    ELSE [s |-> s, m |-> m, e |-> e]

\* num * 2^k and den * 2^-k, each an integer
ScaleNum(num, k) == IF k > 0 THEN BigShl(num, k) ELSE num
ScaleDen(den, k) == IF k < 0 THEN BigShl(den, -k) ELSE den

\* the k for which num * 2^k / den has MantBits bits: k0 or k0 + 1
Scale(num, den, k0) ==
    IF BigCmp(ScaleNum(num, k0), BigShl(ScaleDen(den, k0), MantBits - 1)) >= 0
    THEN k0
    ELSE k0 + 1
RoundTo(s, num, den, e, k) ==
    Normal(s, RoundHalfEven(ScaleNum(num, k), ScaleDen(den, k)), e - k)

\* the float64 nearest to s * (num / den) * 2^e, for num, den > 0
RoundFloat(s, num, den, e) ==
    RoundTo(s, num, den, e, Scale(num, den, (MantBits - 1) - BitLen(num) + BitLen(den)))

FromInt(n) ==
    IF n = 0 THEN Zero ELSE RoundFloat(IF n > 0 THEN 1 ELSE -1, Big(IF n > 0 THEN n ELSE -n), <<1>>, 0)

FNeg(x) == [x EXCEPT !.s = -x.s]

\* -1, 0 or 1 as x < y, x = y or x > y
FCmpAbs(x, y) ==
    IF x.e # y.e THEN (IF x.e < y.e THEN -1 ELSE 1) ELSE BigCmp(x.m, y.m)
FCmp(x, y) ==
    IF x.s # y.s THEN (IF x.s < y.s THEN -1 ELSE 1)
    ELSE IF x.s = 0 THEN 0
    ELSE x.s * FCmpAbs(x, y)

\* the sum of sx * a and sy * b, for a, b > 0: its sign and its magnitude
SignedSum(sx, a, sy, b, cmp) ==
    IF sx = sy THEN [s |-> sx, m |-> BigAdd(a, b)]
    ELSE IF cmp = 0 THEN [s |-> 0, m |-> <<>>]
    ELSE IF cmp > 0 THEN [s |-> sx, m |-> BigSub(a, b)]
    ELSE [s |-> sy, m |-> BigSub(b, a)]
RoundSum(sum, e) == IF sum.s = 0 THEN Zero ELSE RoundFloat(sum.s, sum.m, <<1>>, e)
AddAligned(sx, a, sy, b, e) == RoundSum(SignedSum(sx, a, sy, b, BigCmp(a, b)), e)

\* x + y: the exact sum, rounded
FAdd(x, y) ==
    IF x.s = 0 THEN y
    ELSE IF y.s = 0 THEN x
    ELSE AddAligned(x.s, BigShl(x.m, x.e - Min(x.e, y.e)),
                    y.s, BigShl(y.m, y.e - Min(x.e, y.e)), Min(x.e, y.e))
FSub(x, y) == FAdd(x, FNeg(y))

\* x * y
FMul(x, y) ==
    IF x.s = 0 \/ y.s = 0 THEN Zero
    ELSE RoundFloat(x.s * y.s, BigMul(x.m, y.m), <<1>>, x.e + y.e)

\* x / y for y # 0
FDiv(x, y) ==
    IF x.s = 0 THEN Zero ELSE RoundFloat(x.s * y.s, x.m, y.m, x.e - y.e)

\* strconv.ParseFloat of the "%.2f" string of c cents, with its sign; 0 also
\* stands for a string that does not parse
parseFloat(c) ==
    IF c = 0 THEN Zero
    ELSE RoundFloat(IF c > 0 THEN 1 ELSE -1, Big(IF c > 0 THEN c ELSE -c), Big(100), 0)

\* fmt.Sprintf("%.2f", x) in hundredths: the exact value of x rounded to two
\* decimals, ties to even
FormatFixed2(x) ==
    IF x.s = 0 THEN 0
    ELSE x.s * Small(IF x.e >= 0 THEN BigShl(BigMulSmall(x.m, 100), x.e)
                     ELSE RoundHalfEven(BigMulSmall(x.m, 100), BigShl(<<1>>, -x.e)))

\* fmt.Sprintf("%.0f", x): the exact value of x rounded to a whole number, ties
\* to even
FormatFixed0(x) ==
    IF x.s = 0 THEN 0
    ELSE x.s * Small(IF x.e >= 0 THEN BigShl(x.m, x.e)
                     ELSE RoundHalfEven(x.m, BigShl(<<1>>, -x.e)))

\* ------------------------------------------------------------- arithmetic
Hundred == FromInt(100)

\* ((a - b) / b) * 100 in float64
PctOver(a, b) == FMul(FDiv(FSub(a, b), b), Hundred)

\* fmt.Sprintf("%.2f%%", ((a-b)/b)*100) for the float64 of the prices a and
\* b > 0 (cents), in hundredths of a percent
FormatPct(a, b) == FormatFixed2(PctOver(parseFloat(a), parseFloat(b)))

\* fmt.Sprintf("%.2f", close/historicalEPS) for the float64 of a close and of
\* an EPS > 0 (cents), in hundredths
FormatPE(close, eps) == FormatFixed2(FDiv(parseFloat(close), parseFloat(eps)))

RECURSIVE Reverse(_)
Reverse(s) == IF s = <<>> THEN <<>> ELSE Append(Reverse(Tail(s)), Head(s))

\* the last n elements of s (allData[len(allData)-days:])
LastN(s, n) == IF n > 0 /\ n < Len(s) THEN SubSeq(s, Len(s) - n + 1, Len(s)) ELSE s

\* --------------------------------------------------------------- upstream
\* The upstream market (outside the repository): a bar for every weekday from
\* the listing day 0 on, published at tick 1 of its day.  The bar served on its
\* own day is the running one, from the next day on the final one.
IsTradingDay(d) == d >= 0 /\ (d % 7) < 5
Published(d, t) == IsTradingDay(d) /\ (d < DayOf(t) \/ (d = DayOf(t) /\ t % TicksPerDay >= 1))
FinalClose(d) == 10000 + 100 * ((3 * d) % 7)
\* the days whose bar comes without a high (a null in Yahoo's quote.High, an
\* unparsable string from macrotrends): the code takes 0 for it
HighMissing(d) == d % 9 = 0
Bar(d, t) ==
    LET c == IF d = DayOf(t) THEN FinalClose(d) - 50 ELSE FinalClose(d)
    IN [date |-> d, open |-> FinalClose(d) - 100,
        high |-> IF HighMissing(d) THEN 0 ELSE FinalClose(d) + 200,
        low |-> c - 300, close |-> c, volume |-> 10 + (d % 3)]

\* The volume of a bar counts lots of 10,000 shares: macrotrends prints it in
\* millions with two decimals (its hundredths are the lots), Yahoo gives the
\* number of shares
Shares(volume) == 10000 * volume

\* the published bars with lo <= date <= hi, oldest first
RECURSIVE Bars(_, _, _)
Bars(lo, hi, t) ==
    IF lo > hi THEN <<>>
    ELSE IF Published(hi, t) THEN Append(Bars(lo, hi - 1, t), Bar(hi, t))
    ELSE Bars(lo, hi - 1, t)

\* the TTM EPS (in cents) upstream reports for the week of day d: a new figure
\* a week, the second one a loss
EpsOn(d) == IF d \div 7 = 1 THEN 0 - 120 ELSE 500 + 100 * (d \div 7)

\* FundamentalData as FetchPERatio returns it when macrotrends answers on day
\* `day`: HistoricalData holds the figures reported up to that day, oldest first
FundamentalData(day) ==
    [companyName |-> "apple",
     HistoricalData |-> [i \in 1..(day \div 7 + 1) |->
                           [date |-> 7 * (i - 1), eps |-> EpsOn(7 * (i - 1))]]]

\* MacrotrendsFetcher.FetchPERatio answering at time t
FetchPERatio(t) == FundamentalData(DayOf(t))

\* GetLatestTTM_EPS: the EPS of the last entry that has one > 0; 0 when the
\* series is empty or has none
GetLatestTTM_EPS(pe) ==
    LET hist == pe.HistoricalData
        valid == {i \in 1..Len(hist) : hist[i].eps > 0}
    IN IF valid = {} THEN 0
       ELSE hist[CHOOSE i \in valid : \A j \in valid : j <= i].eps

\* GetEPSForDate: the loop runs over the entries up to the first one dated
\* after `date`, and the last of them with a date <= date and an EPS > 0 gives
\* the result; 0 when there is none
GetEPSForDate(pe, date) ==
    LET hist == pe.HistoricalData
        later == {i \in 1..Len(hist) : hist[i].date > date}
        seen == {i \in 1..Len(hist) : \A j \in later : i <= j}
        valid == {i \in seen : hist[i].date <= date /\ hist[i].eps > 0}
    IN IF valid = {} THEN 0
       ELSE hist[CHOOSE i \in valid : \A j \in valid : j <= i].eps

\* The prices and EPS figures upstream serves up to the last tick of a run, and
\* the strings the loops below format from them, computed once: FormatPct and
\* FormatPE of every pair that can meet.  Any other pair is computed when met.
LastTick == StartTick + LongHorizon
UpstreamBars == {Bar(d, t) : d \in 0..DayOf(LastTick), t \in 0..LastTick}
UpstreamCloses == {b.close : b \in UpstreamBars}
UpstreamRefs == {v \in UpstreamCloses \cup {b.high : b \in UpstreamBars} : v > 0}
UpstreamEPS == {e \in {EpsOn(d) : d \in 0..DayOf(LastTick)} : e > 0}
PctOfUpstream ==
    [x \in UpstreamCloses \X UpstreamRefs |-> FormatPct(x[1], x[2])] @@ <<>>
PEOfUpstream ==
    [x \in UpstreamCloses \X UpstreamEPS |-> FormatPE(x[1], x[2])] @@ <<>>

\* f[x] where f has it, v otherwise
Known(f, x, v) == IF x \in DOMAIN f THEN f[x] ELSE v

\* the Change / HChange of the loops: "" when the guard prev > 0 fails
PctChange(a, b) ==
    IF b > 0 THEN Str(Known(PctOfUpstream, <<a, b>>, FormatPct(a, b))) ELSE Empty

\* the PE of fetchUSStock: "" when the guard historicalEPS > 0 fails
PERatio(close, eps) ==
    IF eps > 0 THEN Str(Known(PEOfUpstream, <<close, eps>>, FormatPE(close, eps)))
    ELSE Empty

\* A volume string is the number it starts with and its suffix: digits holds
\* the number in hundredths, or is empty when the string holds none; the number
\* is written with two decimals before a suffix and with none without.
Thousand == FromInt(1000)
Million == FromInt(1000000)
Billion == FromInt(1000000000)

\* formatVolume of Yahoo's int64 volume
formatVolume(v) ==
    IF v >= 1000000000
    THEN [digits |-> Str(FormatFixed2(FDiv(FromInt(v), Billion))), suffix |-> "B"]
    ELSE IF v >= 1000000
    THEN [digits |-> Str(FormatFixed2(FDiv(FromInt(v), Million))), suffix |-> "M"]
    ELSE IF v >= 1000
    THEN [digits |-> Str(FormatFixed2(FDiv(FromInt(v), Thousand))), suffix |-> "K"]
    ELSE [digits |-> Str(100 * v), suffix |-> ""]
VolumeOfUpstream ==
    [v \in {b.volume : b \in UpstreamBars} |-> formatVolume(Shares(v))] @@ <<>>

\* --------------------------------------------------------------- providers
\* the loop of fetchUSStock (withPE) / parseYahooChartData (without) over bars
\* (oldest first): Change against the previous close, HChange against the
\* previous high; fetchUSStock takes p.Volume + "M" and the PE from the EPS that
\* pe holds for the date, parseYahooChartData formatVolume(volume) and no PE.
\* parseYahooChartData skips a day whose close is 0 (a null of Yahoo) and
\* leaves prevClose and prevHigh as the row before set them
RECURSIVE ToStockData(_, _, _)
ToStockData(bars, withPE, pe) ==
    LET Quoted(q) == q.close # 0
        rows == IF withPE THEN bars ELSE SelectSeq(bars, Quoted)
    IN
    IF rows = <<>> THEN <<>>
    ELSE LET n == Len(rows)
             b == rows[n]
             prevClose == IF n > 1 THEN rows[n - 1].close ELSE 0
             prevHigh == IF n > 1 THEN rows[n - 1].high ELSE 0
             eps == GetEPSForDate(pe, b.date)
         IN Append(ToStockData(SubSeq(rows, 1, n - 1), withPE, pe),
                   [date |-> b.date, open |-> b.open, high |-> b.high, low |-> b.low,
                    close |-> b.close,
                    volume |-> IF withPE
                               THEN [digits |-> Str(b.volume), suffix |-> "M"]
                               ELSE Known(VolumeOfUpstream, b.volume,
                                          formatVolume(Shares(b.volume))),
                    change |-> PctChange(b.close, prevClose),
                    hchange |-> PctChange(b.close, prevHigh),
                    pe |-> IF withPE THEN PERatio(b.close, eps) ELSE Empty])

\* MacrotrendsFetcher.FetchDailyPrices answering at time t: the last `days`
\* rows of the whole history
FetchDailyPrices(days, t) == LastN(Bars(0, DayOf(t), t), days)

\* what fetchUSStock returns with an error
UsFailed(msg) == [data |-> <<>>, ttmEPS |-> 0, companyName |-> "", err |-> msg]

\* fetchUSStock from its second request on: pe is what FetchPERatio returned,
\* FetchDailyPrices answers at time t (up) or fails
UsPrices(pe, days, t, up) ==
    IF up /\ Bars(0, DayOf(t), t) # <<>>
    THEN [data |-> Reverse(ToStockData(FetchDailyPrices(days, t), TRUE, pe)),
          ttmEPS |-> GetLatestTTM_EPS(pe), companyName |-> pe.companyName,
          err |-> NoErr]
    ELSE UsFailed("failed to fetch price data")

\* what the upstreams do during one call of fetchFromProvider: whether
\* FetchPERatio, FetchDailyPrices and Yahoo answer their request
Upstream == [pe : BOOLEAN, prices : BOOLEAN, yahoo : BOOLEAN]

\* The requests of one call block one after the other.  `at` holds the times of
\* a call: start when fetchFromProvider is entered, pe and prices when the two
\* requests of fetchUSStock come back, yahoo when the request of fetchHKStock
\* does.  A call that takes no time has them all equal.
Instant(t) == [start |-> t, pe |-> t, prices |-> t, yahoo |-> t]

\* fetchUSStock: macrotrends, with P/E: FetchPERatio, then FetchDailyPrices
fetchUSStock(days, at, up) ==
    IF up.pe
    THEN UsPrices(FetchPERatio(at.pe), days, at.prices, up.prices)
    ELSE UsFailed("failed to fetch P/E data")

\* fetchHKStock: Yahoo, no P/E.  endDate is the day time.Now() gave before the
\* request, and the bars between endDate - days and endDate come as Yahoo
\* has them at time t, when it answers
fetchHKStock(days, endDate, t, up) ==
    IF up
    THEN [data |-> Reverse(ToStockData(Bars(endDate - days, endDate, t), FALSE,
                                       FundamentalData(0))),
          companyName |-> "Apple Inc.", err |-> NoErr]
    ELSE [data |-> <<>>, companyName |-> "", err |-> "yahoo failed"]

\* the result of fetchFromProvider from what fetchHKStock returned
FromYahoo(hk, ttmEPS) ==
    [data |-> hk.data, ttmEPS |-> ttmEPS, companyName |-> hk.companyName,
     includePE |-> FALSE, err |-> hk.err]

\* the same from what fetchUSStock returned without an error
FromMacrotrends(us) ==
    [data |-> us.data, ttmEPS |-> us.ttmEPS, companyName |-> us.companyName,
     includePE |-> TRUE, err |-> NoErr]

\* when fetchUSStock returned its error: after its first or its second request
FailedAt(us, at) == IF us.err = "failed to fetch P/E data" THEN at.pe ELSE at.prices

\* the branch on the error of fetchUSStock: the fallback to Yahoo, whose
\* fetchHKStock reads the clock when the error has come back
UsOrFallback(us, days, at, up) ==
    IF us.err # NoErr
    THEN FromYahoo(fetchHKStock(days, DayOf(FailedAt(us, at)), at.yahoo, up.yahoo),
                   us.ttmEPS)
    ELSE FromMacrotrends(us)

fetchFromProvider(days, useYahoo, at, up) ==
    IF useYahoo
    THEN FromYahoo(fetchHKStock(days, DayOf(at.start), at.yahoo, up.yahoo), 0)
    ELSE UsOrFallback(fetchUSStock(days, at, up), days, at, up)

\* ------------------------------------------------------------------ cache
\* daily_prices and fetch_log are sets of rows; the PRIMARY KEY of each table is
\* kept by INSERT OR REPLACE.
NoFail == 0 - 1                       \* a write or read that meets no failure
QueryFail == 0 - 2                    \* a read whose Query or Scan fails
StorageErr == "storage error"

\* a daily_prices row made of the eight bound values of the INSERT
PriceRow(symbol, d) ==
    [symbol |-> symbol, date |-> d.date, open |-> d.open, high |-> d.high,
     low |-> d.low, close |-> d.close, volume |-> d.volume, pe |-> d.pe]

\* INSERT OR IGNORE: the row already stored for the (symbol, date) stays
InsertOrIgnore(tbl, row) ==
    IF \E r \in tbl : r.symbol = row.symbol /\ r.date = row.date
    THEN tbl ELSE tbl \cup {row}

\* an upsert that adds the volume of the row it replaces
InsertAccumulating(tbl, row) ==
    LET old == {r \in tbl : r.symbol = row.symbol /\ r.date = row.date}
    IN (tbl \ old)
       \cup {IF old = {} THEN row
              ELSE [row EXCEPT !.volume.digits =
                                   Str(@[1] + (CHOOSE r \in old : TRUE).volume.digits[1])]}

\* an upsert that updates the prices and keeps the volume and P/E of the row
\* it finds
InsertKeepingVolume(tbl, row) ==
    LET old == {r \in tbl : r.symbol = row.symbol /\ r.date = row.date}
    IN (tbl \ old)
       \cup {IF old = {} THEN row
              ELSE [row EXCEPT !.volume = (CHOOSE r \in old : TRUE).volume,
                               !.pe = (CHOOSE r \in old : TRUE).pe]}

\* INSERT OR REPLACE INTO daily_prices: the row with the same (symbol, date) goes
InsertOrReplace(tbl, row) ==
    {r \in tbl : ~(r.symbol = row.symbol /\ r.date = row.date)} \cup {row}

\* the table as the transaction sees it after the first k Execs of the loop
RECURSIVE TxAfter(_, _, _, _)
TxAfter(tbl, symbol, data, k) ==
    IF k = 0 THEN tbl
    ELSE InsertOrReplace(TxAfter(tbl, symbol, data, k - 1), PriceRow(symbol, data[k]))

\* StoreDailyPrices without the Rollback: the rows executed before the failure
\* stay
StoreDailyPricesNoRollback(tbl, symbol, data, failAt) ==
    IF failAt = NoFail
    THEN [tbl |-> TxAfter(tbl, symbol, data, Len(data)), err |-> NoErr]
    ELSE [tbl |-> TxAfter(tbl, symbol, data,
                          IF failAt = 0 THEN 0 ELSE Min(failAt - 1, Len(data))),
          err |-> StorageErr]

\* Cache.StoreDailyPrices.  failAt is where the call fails: 0 in Begin/Prepare,
\* i in the Exec of row i, Len(data)+1 in Commit, NoFail nowhere.  A failure
\* returns before Commit and the deferred Rollback drops the transaction.
StoreDailyPrices(tbl, symbol, data, failAt) ==
    IF failAt = NoFail
    THEN [tbl |-> TxAfter(tbl, symbol, data, Len(data)), err |-> NoErr]
    ELSE [tbl |-> tbl, err |-> StorageErr]

\* Cache.UpdateFetchLog: INSERT OR REPLACE INTO fetch_log, one statement
UpdateFetchLog(tbl, m, ok) ==
    IF ok THEN [tbl |-> {r \in tbl : r.symbol # m.symbol} \cup {m}, err |-> NoErr]
    ELSE [tbl |-> tbl, err |-> StorageErr]

\* Cache.GetFetchMeta: the row of the symbol, nil without an error when there
\* is none (sql.ErrNoRows), nil with the error when the query or the Scan fails
GetFetchMeta(tbl, symbol, ok) ==
    IF ~ok THEN [meta |-> Nil, err |-> StorageErr]
    ELSE IF \E r \in tbl : r.symbol = symbol
    THEN [meta |-> CHOOSE r \in tbl : r.symbol = symbol, err |-> NoErr]
    ELSE [meta |-> Nil, err |-> NoErr]

\* the row fetch_log holds for the symbol, Nil when there is none
FetchMetaOf(tbl, symbol) == GetFetchMeta(tbl, symbol, TRUE).meta

\* ORDER BY date ASC
RECURSIVE OrderByDate(_)
OrderByDate(rows) ==
    IF rows = {} THEN <<>>
    ELSE LET first == CHOOSE r \in rows : \A q \in rows : r.date <= q.date
         IN <<first>> \o OrderByDate(rows \ {first})

\* the recomputation with HChange taken against the row's own high
RECURSIVE RecomputeOwnHigh(_)
RecomputeOwnHigh(rows) ==
    IF rows = <<>> THEN <<>>
    ELSE LET n == Len(rows)
             r == rows[n]
             prevClose == IF n > 1 THEN rows[n - 1].close ELSE 0
         IN Append(RecomputeOwnHigh(SubSeq(rows, 1, n - 1)),
                   [date |-> r.date, open |-> r.open, high |-> r.high, low |-> r.low,
                    close |-> r.close, volume |-> r.volume,
                    change |-> PctChange(r.close, prevClose),
                    hchange |-> IF n > 1 THEN PctChange(r.close, r.high) ELSE Empty,
                    pe |-> r.pe])

\* the loop of GetDailyPrices over the rows (oldest first): Change and HChange
\* are recomputed against the previous row of the result
RECURSIVE Recompute(_)
Recompute(rows) ==
    IF rows = <<>> THEN <<>>
    ELSE LET n == Len(rows)
             r == rows[n]
             prevClose == IF n > 1 THEN rows[n - 1].close ELSE 0
             prevHigh == IF n > 1 THEN rows[n - 1].high ELSE 0
         IN Append(Recompute(SubSeq(rows, 1, n - 1)),
                   [date |-> r.date, open |-> r.open, high |-> r.high, low |-> r.low,
                    close |-> r.close, volume |-> r.volume,
                    change |-> PctChange(r.close, prevClose),
                    hchange |-> PctChange(r.close, prevHigh),
                    pe |-> r.pe])

\* the rows the loop of GetDailyPrices got from rows.Next, oldest first: all of
\* them, or the first `how` when the iteration stops on an error
RowsRead(rows, how) ==
    IF how = NoFail THEN rows ELSE SubSeq(rows, 1, Min(how, Len(rows)))

\* rows.Err() after the loop
ReadErr(how) == IF how = NoFail THEN NoErr ELSE StorageErr

\* GetDailyPrices that recomputes over the whole history of the symbol and
\* then cuts the range out
GetDailyPricesWholeHistory(tbl, symbol, startDate, endDate, how) ==
    IF how = QueryFail
    THEN [data |-> <<>>, err |-> StorageErr]
    ELSE LET InRange(r) == r.date >= startDate /\ r.date <= endDate
         IN [data |-> Reverse(RowsRead(SelectSeq(
                         Recompute(OrderByDate({r \in tbl : r.symbol = symbol})),
                         InRange), how)),
             err |-> ReadErr(how)]

\* GetDailyPrices with the end of the range left out
GetDailyPricesOpenEnd(tbl, symbol, startDate, endDate, how) ==
    IF how = QueryFail
    THEN [data |-> <<>>, err |-> StorageErr]
    ELSE [data |-> Reverse(Recompute(RowsRead(OrderByDate(
                     {r \in tbl : r.symbol = symbol /\ r.date >= startDate
                                   /\ r.date < endDate}), how))),
          err |-> ReadErr(how)]

\* Cache.GetDailyPrices: newest first.  how is the way the read ends: NoFail,
\* it succeeds; QueryFail, the Query or a Scan fails and nothing comes back with
\* the error; a number k >= 0, rows.Next stops on an error after k rows, and the
\* rows read so far come back together with rows.Err()
GetDailyPrices(tbl, symbol, startDate, endDate, how) ==
    IF how = QueryFail
    THEN [data |-> <<>>, err |-> StorageErr]
    ELSE [data |-> Reverse(Recompute(RowsRead(OrderByDate(
                     {r \in tbl : r.symbol = symbol /\ r.date >= startDate
                                   /\ r.date <= endDate}), how))),
          err |-> ReadErr(how)]

\* IsFresh as "fetched within the last 24 hours"
IsFreshWithinDay(m, t) == t - m.last_fetched < TicksPerDay

\* CoversRange with a strict comparison
CoversRangeStrict(m, startDate) == m.earliest_date < startDate

\* FetchMeta.IsFresh at time t: same year and day of year
IsFresh(m, t) == DayOf(m.last_fetched) = DayOf(t)

\* FetchMeta.CoversRange
CoversRange(m, startDate) == m.earliest_date <= startDate

\* ----------------------------------------------------------- fetchStockData
\* fetchDays: the whole requested window, or the delta since the last fetch
\* when the cached range covers the requested start
FetchDays(meta, days, startDate, t) ==
    IF meta # Nil /\ CoversRange(meta, startDate)
    THEN LET daysSinceLatest == ((t - meta.last_fetched) \div TicksPerDay) + DeltaMargin
         IN IF daysSinceLatest < days THEN daysSinceLatest ELSE days
    ELSE days

\* the condition under which a cache read is served: no error and some rows
Serves(read) == read.err = NoErr /\ Len(read.data) > 0

\* HitResult with the EPS and the P/E flag left at their zero values
HitResultZeroValues(meta, data) ==
    [data |-> data, ttmEPS |-> 0, companyName |-> meta.company_name,
     includePE |-> FALSE, err |-> NoErr]

\* the return of the cache hit: rows from the cache, the rest from fetch_log
HitResult(meta, data) ==
    [data |-> data, ttmEPS |-> meta.ttm_eps, companyName |-> meta.company_name,
     includePE |-> meta.source = "macrotrends", err |-> NoErr]

\* return nil, 0, "", false, err
ErrResult(err) ==
    [data |-> <<>>, ttmEPS |-> 0, companyName |-> "", includePE |-> FALSE, err |-> err]

\* the return after a failed provider call and the read of the stale rows
StaleResult(meta, read, err) ==
    IF Serves(read)
    THEN [data |-> read.data, ttmEPS |-> meta.ttm_eps, companyName |-> meta.company_name,
          includePE |-> meta.source = "macrotrends", err |-> NoErr]
    ELSE ErrResult(err)

\* NewFetchMeta that reads the payload as oldest-first
NewFetchMetaSwapped(symbol, meta, prov, t) ==
    LET data == prov.data
        earliestDate == data[1].date
    IN [symbol |-> symbol,
        source |-> IF prov.includePE THEN "macrotrends" ELSE "yahoo",
        company_name |-> prov.companyName,
        ttm_eps |-> prov.ttmEPS,
        last_fetched |-> t,
        latest_date |-> data[Len(data)].date,
        earliest_date |-> IF meta # Nil /\ meta.earliest_date < earliestDate
                          THEN meta.earliest_date ELSE earliestDate]

\* the FetchMeta written after a fetch: earliest date of the payload (its last
\* element) widened by the earliest date read at the start of the call
NewFetchMeta(symbol, meta, prov, t) ==
    LET data == prov.data
        earliestDate == data[Len(data)].date
    IN [symbol |-> symbol,
        source |-> IF prov.includePE THEN "macrotrends" ELSE "yahoo",
        company_name |-> prov.companyName,
        ttm_eps |-> prov.ttmEPS,
        last_fetched |-> t,
        latest_date |-> data[1].date,
        earliest_date |-> IF meta # Nil /\ meta.earliest_date < earliestDate
                          THEN meta.earliest_date ELSE earliestDate]

\* FetchResult that fails the call when the read-back fails
FetchResultStrict(prov, read) ==
    IF read.err # NoErr
    THEN ErrResult(read.err)
    ELSE [data |-> IF Serves(read) THEN read.data ELSE prov.data,
          ttmEPS |-> prov.ttmEPS, companyName |-> prov.companyName,
          includePE |-> prov.includePE, err |-> NoErr]

\* FetchResult that never reports a P/E
FetchResultNoPE(prov, read) ==
    [data |-> IF Serves(read) THEN read.data ELSE prov.data,
     ttmEPS |-> prov.ttmEPS, companyName |-> prov.companyName,
     includePE |-> FALSE, err |-> NoErr]

\* FetchResult that returns the provider's records as they came
FetchResultPayload(prov, read) ==
    [data |-> prov.data,
     ttmEPS |-> prov.ttmEPS, companyName |-> prov.companyName,
     includePE |-> prov.includePE, err |-> NoErr]

\* the return after a provider success: the range re-read from the cache, or the
\* provider's records when that read fails or is empty
FetchResult(prov, read) ==
    [data |-> IF Serves(read) THEN read.data ELSE prov.data,
     ttmEPS |-> prov.ttmEPS, companyName |-> prov.companyName,
     includePE |-> prov.includePE, err |-> NoErr]

NoProv == [data |-> <<>>, ttmEPS |-> 0, companyName |-> "", includePE |-> FALSE,
           err |-> "not called"]
NoRet == [data |-> <<>>, ttmEPS |-> 0, companyName |-> "", includePE |-> FALSE,
          err |-> "pending"]

\* the locals of a call, and what the call did so far
IdleReq ==
    [symbol |-> "", days |-> 0, useYahoo |-> FALSE, startDate |-> 0, today |-> 0,
     meta |-> Nil, fresh |-> FALSE, fetchDays |-> 0, prov |-> NoProv,
     calls |-> 0, asked |-> 0, hitRead |-> "none", staleRead |-> "none",
     metaRead |-> "none", backRead |-> "none", store |-> "none", log |-> "none",
     restore |-> FALSE,
     again |-> FALSE, endDate |-> 0, peDay |-> 0, lastFetched |-> 0]

\* how a read ended, for the record of the call
ReadKind(read) ==
    IF read.err # NoErr THEN "error" ELSE IF Len(read.data) > 0 THEN "rows" ELSE "empty"

\* ------------------------------------------------------------------ calendar
\* Day 0 is Monday 2024-01-01; time.Parse("2006-01-02", s) of a date is its day
\* number, and Year, Month and ISOWeek are those of time.Time.
EpochYear == 2024
IsLeap(y) == (y % 4 = 0 /\ y % 100 # 0) \/ y % 400 = 0
DaysInYear(y) == IF IsLeap(y) THEN 366 ELSE 365
DaysInMonth(y, m) ==
    IF m = 2 THEN (IF IsLeap(y) THEN 29 ELSE 28)
    ELSE IF m \in {4, 6, 9, 11} THEN 30 ELSE 31

\* the year of day d and its place in that year (0 for January 1), counting
\* from January 1 of year y, forwards or backwards
RECURSIVE YearDay(_, _)
YearDay(y, d) ==
    IF d < 0 THEN YearDay(y - 1, d + DaysInYear(y - 1))
    ELSE IF d < DaysInYear(y) THEN [year |-> y, yday |-> d]
    ELSE YearDay(y + 1, d - DaysInYear(y))

RECURSIVE MonthDay(_, _, _)
MonthDay(y, m, d) ==
    IF d < DaysInMonth(y, m) THEN [month |-> m, day |-> d + 1]
    ELSE MonthDay(y, m + 1, d - DaysInMonth(y, m))

Year(d) == YearDay(EpochYear, d).year
Month(d) == MonthDay(Year(d), 1, YearDay(EpochYear, d).yday).month
Day(d) == MonthDay(Year(d), 1, YearDay(EpochYear, d).yday).day

\* time.Time.ISOWeek: the year and the week of the Thursday of the date's week
ISOWeek(d) ==
    LET thursday == YearDay(EpochYear, d - (d % 7) + 3)
    IN [year |-> thursday.year, week |-> thursday.yday \div 7 + 1]

\* ---------------------------------------------------------------- period.go
PeriodWeekly == "weekly"
PeriodMonthly == "monthly"
PeriodQuarterly == "quarterly"
PeriodYearly == "yearly"
PeriodTypes == {PeriodWeekly, PeriodMonthly, PeriodQuarterly, PeriodYearly}

\* A string is the sequence of its bytes.  fmt's "%d" of n >= 0, and the
\* zero-padding of "%02d" and of the layouts "2006", "01", "02"
Digit(n) == 48 + n
RECURSIVE Decimal(_)
Decimal(n) == IF n < 10 THEN <<Digit(n)>> ELSE Append(Decimal(n \div 10), Digit(n % 10))
RECURSIVE Pad(_, _)
Pad(str, width) == IF Len(str) >= width THEN str ELSE Pad(<<Digit(0)>> \o str, width)
Hyphen == <<45>>
LetterW == <<87>>
LetterQ == <<81>>

\* getPeriodKey: "%d-W%02d" of the ISO year and week, the layout "2006-01",
\* "%d-Q%d" of the year and quarter, "%d" of the year, else "2006-01-02"
getPeriodKey(date, pt) ==
    CASE pt = PeriodWeekly ->
           Decimal(ISOWeek(date).year) \o Hyphen \o LetterW \o Pad(Decimal(ISOWeek(date).week), 2)
      [] pt = PeriodMonthly ->
           Pad(Decimal(Year(date)), 4) \o Hyphen \o Pad(Decimal(Month(date)), 2)
      [] pt = PeriodQuarterly ->
           Decimal(Year(date)) \o Hyphen \o LetterQ \o Decimal((Month(date) - 1) \div 3 + 1)
      [] pt = PeriodYearly -> Decimal(Year(date))
      [] OTHER ->
           Pad(Decimal(Year(date)), 4) \o Hyphen \o Pad(Decimal(Month(date)), 2)
               \o Hyphen \o Pad(Decimal(Day(date)), 2)

\* a < b for two strings, byte by byte as sort.Strings compares them
RECURSIVE KeyLess(_, _)
KeyLess(a, b) ==
    /\ b # <<>>
    /\ \/ a = <<>>
       \/ Head(a) < Head(b)
       \/ Head(a) = Head(b) /\ KeyLess(Tail(a), Tail(b))

\* the float64 constants of classifyDropPct and calculateDrops
Two == FromInt(2)
Three == FromInt(3)
Four == FromInt(4)
Five == FromInt(5)

\* classifyDropPct: the bucket 2, 3, 4 or 5 of a percentage change, 0 for none
classifyDropPct(pctChange) ==
    IF FCmp(pctChange, Zero) >= 0 THEN 0
    ELSE IF FCmp(FNeg(pctChange), Five) >= 0 THEN 5
    ELSE IF FCmp(FNeg(pctChange), Four) >= 0 THEN 4
    ELSE IF FCmp(FNeg(pctChange), Three) >= 0 THEN 3
    ELSE IF FCmp(FNeg(pctChange), Two) >= 0 THEN 2
    ELSE 0

\* calculateDrops: the buckets <<closeDrop, lowDrop>> of a day
calculateDrops(close, low, prevClose) ==
    IF FCmp(prevClose, Zero) <= 0 THEN <<0, 0>>
    ELSE <<classifyDropPct(PctOver(close, prevClose)),
           classifyDropPct(PctOver(low, prevClose))>>

\* incrementDropCount; the counters drop2 .. drop5 are a function on 2..5
incrementDropCount(bucket, drops) ==
    IF bucket \in DOMAIN drops THEN [drops EXCEPT ![bucket] = @ + 1] ELSE drops

\* parseVolume: 0 for the empty string; otherwise the number before the suffix
\* B, M or K, or the whole string without one, is parsed (0 when ParseFloat
\* fails) and multiplied by 1e9, 1e6, 1e3 or 1.0
parseVolume(s) ==
    IF s.digits = Empty /\ s.suffix = "" THEN Zero
    ELSE FMul(IF s.digits = Empty THEN Zero ELSE parseFloat(s.digits[1]),
              CASE s.suffix = "B" -> Billion
                [] s.suffix = "M" -> Million
                [] s.suffix = "K" -> Thousand
                [] OTHER -> FromInt(1))

\* formatVolumeFloat: "%.2fB", "%.2fM", "%.2fK" or "%.0f"
formatVolumeFloat(v) ==
    IF FCmp(v, Billion) >= 0
    THEN [digits |-> Str(FormatFixed2(FDiv(v, Billion))), suffix |-> "B"]
    ELSE IF FCmp(v, Million) >= 0
    THEN [digits |-> Str(FormatFixed2(FDiv(v, Million))), suffix |-> "M"]
    ELSE IF FCmp(v, Thousand) >= 0
    THEN [digits |-> Str(FormatFixed2(FDiv(v, Thousand))), suffix |-> "K"]
    ELSE [digits |-> Str(100 * FormatFixed0(v)), suffix |-> ""]

\* sort.Slice(days, by Date): insertion sort, oldest first
RECURSIVE InsertDay(_, _)
InsertDay(days, d) ==
    IF days = <<>> THEN <<d>>
    ELSE IF d.date < days[Len(days)].date
         THEN Append(InsertDay(SubSeq(days, 1, Len(days) - 1), d), days[Len(days)])
         ELSE Append(days, d)
RECURSIVE SortDays(_)
SortDays(days) ==
    IF days = <<>> THEN <<>>
    ELSE InsertDay(SortDays(SubSeq(days, 1, Len(days) - 1)), days[Len(days)])

\* periodGroups[key]: the records of the key, in the order of the input
RECURSIVE PeriodGroup(_, _, _)
PeriodGroup(data, pt, key) ==
    IF data = <<>> THEN <<>>
    ELSE (IF getPeriodKey(Head(data).date, pt) = key THEN <<Head(data)>> ELSE <<>>)
         \o PeriodGroup(Tail(data), pt, key)

\* sort.Strings(periodOrder): the distinct keys, ascending
RECURSIVE SortKeys(_)
SortKeys(keys) ==
    IF keys = {} THEN <<>>
    ELSE LET k == CHOOSE k \in keys : \A o \in keys : o = k \/ KeyLess(k, o)
         IN <<k>> \o SortKeys(keys \ {k})
PeriodOrder(data, pt) == SortKeys({getPeriodKey(data[i].date, pt) : i \in 1..Len(data)})

\* one pass of the loop over the days of a period: acc holds highVal, lowVal,
\* totalVolume, the counters and dayPrevClose as the passes before left them
DayRecordLastHigh(acc, i, high, low, close, vol, drops) ==
    [highVal |-> high,
     lowVal |-> IF i = 1 \/ FCmp(low, acc.lowVal) < 0 THEN low ELSE acc.lowVal,
     totalVolume |-> FAdd(acc.totalVolume, vol),
     dropC |-> incrementDropCount(drops[1], acc.dropC),
     dropL |-> incrementDropCount(drops[2], acc.dropL),
     dayPrevClose |-> close]
DayRecord(acc, i, high, low, close, vol, drops) ==
    [highVal |-> IF i = 1 \/ FCmp(high, acc.highVal) > 0 THEN high ELSE acc.highVal,
     lowVal |-> IF i = 1 \/ FCmp(low, acc.lowVal) < 0 THEN low ELSE acc.lowVal,
     totalVolume |-> FAdd(acc.totalVolume, vol),
     dropC |-> incrementDropCount(drops[1], acc.dropC),
     dropL |-> incrementDropCount(drops[2], acc.dropL),
     dayPrevClose |-> close]
DayPass(acc, i, high, low, close, vol) ==
    DayRecord(acc, i, high, low, close, vol,
              IF FCmp(acc.dayPrevClose, Zero) > 0
              THEN calculateDrops(close, low, acc.dayPrevClose)
              ELSE <<0, 0>>)

\* the loop over the days of one period, after its first i days
RECURSIVE DayLoop(_, _)
DayLoop(days, i) ==
    IF i = 0
    THEN [highVal |-> Zero, lowVal |-> Zero, totalVolume |-> Zero,
          dropC |-> [b \in 2..5 |-> 0], dropL |-> [b \in 2..5 |-> 0],
          dayPrevClose |-> Zero]
    ELSE DayPass(DayLoop(days, i - 1), i, parseFloat(days[i].high),
                 parseFloat(days[i].low), parseFloat(days[i].close),
                 parseVolume(days[i].volume))

\* the PeriodData of a key, from its days (oldest first) and what the loop over
\* them left
PeriodData(key, firstDay, lastDay, n, acc, prevPeriodClose) ==
    [Period |-> key, StartDate |-> firstDay.date, EndDate |-> lastDay.date,
     Open |-> firstDay.open,
     High |-> FormatFixed2(acc.highVal),
     Low |-> FormatFixed2(acc.lowVal),
     Close |-> lastDay.close,
     Volume |-> formatVolumeFloat(acc.totalVolume),
     Change |-> IF FCmp(prevPeriodClose, Zero) > 0
                THEN Str(FormatFixed2(PctOver(parseFloat(lastDay.close), prevPeriodClose)))
                ELSE Empty,
     PE |-> lastDay.pe,
     Days |-> n,
     Drop2Pct |-> [Close |-> acc.dropC[2], Low |-> acc.dropL[2]],
     Drop3Pct |-> [Close |-> acc.dropC[3], Low |-> acc.dropL[3]],
     Drop4Pct |-> [Close |-> acc.dropC[4], Low |-> acc.dropL[4]],
     Drop5Pct |-> [Close |-> acc.dropC[5], Low |-> acc.dropL[5]]]
PeriodOfDays(key, days, prevPeriodClose) ==
    PeriodData(key, days[1], days[Len(days)], Len(days), DayLoop(days, Len(days)),
               prevPeriodClose)

\* one pass of the loop over the sorted keys: the period is appended to the
\* result and its close becomes prevPeriodClose
PeriodAppendOpen(result, period) ==
    [result |-> Append(result, period), prevPeriodClose |-> parseFloat(period.Open)]
PeriodAppend(result, period) ==
    [result |-> Append(result, period), prevPeriodClose |-> parseFloat(period.Close)]
PeriodPass(acc, data, pt, key) ==
    PeriodAppend(acc.result,
                 PeriodOfDays(key, SortDays(PeriodGroup(data, pt, key)), acc.prevPeriodClose))

\* the loop over the sorted keys, after the first i of them: the periods so far,
\* oldest first, and prevPeriodClose
RECURSIVE PeriodLoop(_, _, _, _)
PeriodLoop(data, pt, order, i) ==
    IF i = 0 THEN [result |-> <<>>, prevPeriodClose |-> Zero]
    ELSE PeriodPass(PeriodLoop(data, pt, order, i - 1), data, pt, order[i])

\* AggregateToPeriods without the reversal at its end
AggregateOldestFirst(data, pt) ==
    IF Len(data) = 0 THEN <<>>
    ELSE PeriodLoop(data, pt, PeriodOrder(data, pt), Len(PeriodOrder(data, pt))).result

\* AggregateToPeriods(data, periodType): data oldest first, the result newest
\* first; nil is the empty sequence
AggregateToPeriods(data, pt) ==
    IF Len(data) = 0 THEN <<>>
    ELSE Reverse(PeriodLoop(data, pt, PeriodOrder(data, pt),
                            Len(PeriodOrder(data, pt))).result)

\* The strings of a request (its symbol, its period parameter) are sequences of
\* ASCII bytes.  strings.ToLower, strings.ToUpper and strings.HasSuffix:
ToLower(str) == [i \in 1..Len(str) |-> IF str[i] \in 65..90 THEN str[i] + 32 ELSE str[i]]
ToUpper(str) == [i \in 1..Len(str) |-> IF str[i] \in 97..122 THEN str[i] - 32 ELSE str[i]]
HasSuffix(str, suffix) ==
    /\ Len(str) >= Len(suffix)
    /\ SubSeq(str, Len(str) - Len(suffix) + 1, Len(str)) = suffix

\* the bytes of the period names "daily", "weekly", "monthly", "quarterly" and
\* "yearly", and of "invalid", a string that is none
Name ==
    [daily |-> <<100, 97, 105, 108, 121>>,
     weekly |-> <<119, 101, 101, 107, 108, 121>>,
     monthly |-> <<109, 111, 110, 116, 104, 108, 121>>,
     quarterly |-> <<113, 117, 97, 114, 116, 101, 114, 108, 121>>,
     yearly |-> <<121, 101, 97, 114, 108, 121>>,
     invalid |-> <<105, 110, 118, 97, 108, 105, 100>>]

\* the first n bytes of a string, and the string with its first letter in
\* upper case
First(str, n) == SubSeq(str, 1, n)
Capitalised(str) == ToUpper(First(str, 1)) \o Tail(str)

\* ParsePeriodType: the switch over strings.ToLower(s)
ParsePeriodType(s) ==
    LET l == ToLower(s)
    IN CASE l \in {Name.weekly, First(Name.weekly, 4), First(Name.weekly, 1)}
                \* "weekly", "week", "w"
                -> [type |-> PeriodWeekly, err |-> NoErr]
         [] l \in {Name.monthly, First(Name.monthly, 5), First(Name.monthly, 1)}
                \* "monthly", "month", "m"
                -> [type |-> PeriodMonthly, err |-> NoErr]
         [] l \in {Name.quarterly, First(Name.quarterly, 7), First(Name.quarterly, 1)}
                \* "quarterly", "quarter", "q"
                -> [type |-> PeriodQuarterly, err |-> NoErr]
         [] l \in {Name.yearly, First(Name.yearly, 4), First(Name.yearly, 1)}
                \* "yearly", "year", "y"
                -> [type |-> PeriodYearly, err |-> NoErr]
         [] OTHER -> [type |-> "", err |-> "invalid period type"]

\* the period query parameter of a request, "" when it is absent: "daily",
\* "weekly", "monthly", "quarterly", "yearly", "week", "W", "Weekly", "WEEKLY",
\* "Month", "Q", "y", "Daily", "invalid"
PeriodParams ==
    {<<>>, Name.daily, Name.weekly, Name.monthly, Name.quarterly, Name.yearly,
     First(Name.weekly, 4), ToUpper(First(Name.weekly, 1)), Capitalised(Name.weekly),
     ToUpper(Name.weekly), Capitalised(First(Name.monthly, 5)),
     ToUpper(First(Name.quarterly, 1)), First(Name.yearly, 1), Capitalised(Name.daily),
     Name.invalid}
QueryPeriod(param) == IF param = <<>> THEN Name.daily ELSE param
validPeriods == {Name.daily, Name.weekly, Name.monthly, Name.quarterly, Name.yearly}

\* the symbol in the path of a request: none, "AAPL", "0700.hk"
HandlerSymbols ==
    {<<>>, <<65, 65, 80, 76>>, <<48, 55, 48, 48, 46, 104, 107>>}

\* isHKStock: strings.HasSuffix(strings.ToUpper(symbol), ".HK")
isHKStock(symbol) == HasSuffix(ToUpper(symbol), <<46, 72, 75>>)

\* The request a handler works on and its answer: the HTTP status (0 while
\* nothing is written), whether fetchStockData and AggregateToPeriods were
\* called, and the daily or period data of the body
NoResp == [handler |-> "", method |-> "", symbol |-> <<>>, period |-> <<>>,
           status |-> 0, fetched |-> FALSE, aggregated |-> FALSE, periodType |-> "",
           data |-> <<>>, periodData |-> <<>>]
Request(handler, method, symbol, period) ==
    [NoResp EXCEPT !.handler = handler, !.method = method, !.symbol = symbol,
                   !.period = period]
Reply(q, status, fetched) == [q EXCEPT !.status = status, !.fetched = fetched]
Aggregated(reply, pt, data) ==
    [reply EXCEPT !.aggregated = TRUE, !.periodType = pt,
                  !.periodData = AggregateToPeriods(Reverse(data), pt)]

\* handleStock from the return of fetchStockData on
StockReply(q, prov) ==
    IF prov.err # NoErr THEN Reply(q, 500, TRUE)
    ELSE IF Len(prov.data) = 0 THEN Reply(q, 404, TRUE)
    ELSE IF q.period # Name.daily
    THEN Aggregated(Reply(q, 200, TRUE), ParsePeriodType(q.period).type, prov.data)
    ELSE [Reply(q, 200, TRUE) EXCEPT !.data = prov.data]

\* handleStockExcel from the return of fetchStockData on
ExcelReply(q, prov) ==
    IF prov.err # NoErr THEN Reply(q, 500, TRUE)
    ELSE IF q.period = Name.daily
    THEN [Reply(q, 200, TRUE) EXCEPT !.data = prov.data]
    ELSE Aggregated(Reply(q, 200, TRUE), ParsePeriodType(q.period).type, prov.data)

VARIABLES
    now,            \* the wall clock, in ticks
    cacheOn,        \* whether InitCache gave a cache (cache != nil)
    daily_prices,   \* table daily_prices
    fetch_log,      \* table fetch_log
    pc,             \* where each request goroutine stands in fetchStockData
    req,            \* the locals of each call and the record of what it did
    ret,            \* what each call returned
    nreq,           \* calls issued so far
    faults,         \* storage failures so far
    series,         \* the daily series a handler aggregates, oldest first
    periodType,     \* the period type of the aggregation, "" before it
    periods,        \* what AggregateToPeriods returned
    resp            \* what an HTTP handler answered, NoResp before it

vars == <<now, cacheOn, daily_prices, fetch_log, pc, req, ret, nreq, faults,
          series, periodType, periods, resp>>

Init ==
    /\ now = StartTick
    /\ cacheOn \in BOOLEAN
    /\ daily_prices = {}
    /\ fetch_log = {}
    /\ pc = [p \in Procs |-> "idle"]
    /\ req = [p \in Procs |-> IdleReq]
    /\ ret = [p \in Procs |-> NoRet]
    /\ nreq = 0
    /\ faults = 0
    /\ series = <<>>
    /\ periodType = ""
    /\ periods = <<>>
    /\ resp = NoResp

\* a storage operation may fail while the failures of the run are not used up
MayFail(ok) == ok \/ faults < MaxFaults
Count(ok) == IF ok THEN faults ELSE faults + 1

\* time passes, up to `limit` ticks after the start
Tick(limit) ==
    /\ now < StartTick + limit
    /\ now' = now + 1
    /\ UNCHANGED <<cacheOn, daily_prices, fetch_log, pc, req, ret, nreq, faults,
                 series, periodType, periods, resp>>

\* fetchFromProvider is entered: with useYahoo, fetchHKStock reads time.Now()
\* as its endDate and sends its request; without, FetchPERatio is sent and no
\* clock is read (0)
YahooClock(useYahoo) == IF useYahoo THEN DayOf(now) ELSE 0

\* fetchStockData(cache, symbol, days, useYahoo) is entered: symbolUpper,
\* startDate and today are taken; without a cache the provider is called
\* directly
Call(p, symbol, days, useYahoo, limit) ==
    /\ pc[p] = "idle"
    /\ nreq < limit
    /\ nreq' = nreq + 1
    /\ req' = [req EXCEPT ![p] = [IdleReq EXCEPT !.symbol = symbol, !.days = days,
                                  !.useYahoo = useYahoo, !.today = DayOf(now),
                                  !.startDate = DayOf(now) - days,
                                  !.endDate = IF cacheOn THEN 0
                                              ELSE YahooClock(useYahoo)]]
    /\ pc' = [pc EXCEPT ![p] = IF cacheOn THEN "meta" ELSE "direct"]
    /\ UNCHANGED <<now, cacheOn, daily_prices, fetch_log, ret, faults,
                 series, periodType, periods, resp>>

\* cache == nil: what the provider returned is returned
Returned(p, prov) ==
    /\ req' = [req EXCEPT ![p].prov = prov, ![p].calls = @ + 1,
                          ![p].asked = req[p].days,
                          ![p].endDate = 0, ![p].peDay = 0]
    /\ ret' = [ret EXCEPT ![p] = prov]
    /\ pc' = [pc EXCEPT ![p] = "done"]

\* GetFetchMeta and the test of the cache hit; without a hit, fetchDays
\* `meta, _ := cache.GetFetchMeta(symbolUpper)`: the error is dropped, and a
\* read that failed leaves meta nil (metaRead keeps how the read ended)
Looked(p, meta, fresh, err) ==
    IF fresh /\ CoversRange(meta, req[p].startDate)
    THEN /\ req' = [req EXCEPT ![p].meta = meta, ![p].fresh = fresh,
                      ![p].metaRead = err]
         /\ pc' = [pc EXCEPT ![p] = "hit"]
    ELSE /\ req' = [req EXCEPT ![p].meta = meta, ![p].fresh = fresh,
                      ![p].metaRead = err,
                      ![p].fetchDays =
                          FetchDays(meta, req[p].days, req[p].startDate, now),
                      ![p].endDate = YahooClock(req[p].useYahoo)]
         /\ pc' = [pc EXCEPT ![p] = "fetch"]

\* fresh is only asked of an entry that was read
LookedUp(p, got) ==
    Looked(p, got.meta, got.meta # Nil /\ IsFresh(got.meta, now), got.err)

\* the read of fetch_log at the start of the call, which may fail
Lookup(p, ok) ==
    /\ pc[p] = "meta"
    /\ MayFail(ok)
    /\ faults' = Count(ok)
    /\ LookedUp(p, GetFetchMeta(fetch_log, req[p].symbol, ok))
    /\ UNCHANGED <<now, cacheOn, daily_prices, fetch_log, ret, nreq,
                 series, periodType, periods, resp>>

\* the GetDailyPrices of the cache hit: served, or on to the provider
HitServed(p, read) ==
    IF Serves(read)
    THEN /\ req' = [req EXCEPT ![p].hitRead = ReadKind(read)]
         /\ ret' = [ret EXCEPT ![p] = HitResult(req[p].meta, read.data)]
         /\ pc' = [pc EXCEPT ![p] = "done"]
    ELSE /\ req' = [req EXCEPT ![p].hitRead = ReadKind(read),
                      ![p].fetchDays = FetchDays(req[p].meta, req[p].days,
                                                 req[p].startDate, now),
                      ![p].endDate = YahooClock(req[p].useYahoo)]
         /\ ret' = ret
         /\ pc' = [pc EXCEPT ![p] = "fetch"]

\* the read of the requested range on a cache hit, which may fail
HitRead(p, how) ==
    /\ pc[p] = "hit"
    /\ MayFail(how = NoFail)
    /\ faults' = Count(how = NoFail)
    /\ HitServed(p, GetDailyPrices(daily_prices, req[p].symbol, req[p].startDate,
                                   req[p].today, how))
    /\ UNCHANGED <<now, cacheOn, daily_prices, fetch_log, nreq,
                 series, periodType, periods, resp>>

\* the branch after the provider call that goes on without looking at err
AfterProviderUnchecked(prov, meta) ==
    IF Len(prov.data) > 0 THEN "store" ELSE "read"

\* where the call goes after the provider call: on an error to the stale read
\* (meta != nil) or to the return of the error, otherwise to the store of the
\* records, or past it when there are none
AfterProvider(prov, meta) ==
    IF prov.err # NoErr
    THEN IF meta # Nil THEN "stale" ELSE "done"
    ELSE IF Len(prov.data) > 0 THEN "store" ELSE "read"

\* the branch of fetchStockData on what fetchFromProvider(symbol, fetchDays,
\* useYahoo) returned
Fetched(p, prov) ==
    /\ req' = [req EXCEPT ![p].prov = prov, ![p].calls = @ + 1,
                          ![p].asked = req[p].fetchDays,
                          ![p].endDate = 0, ![p].peDay = 0]
    /\ pc' = [pc EXCEPT ![p] = AfterProvider(prov, req[p].meta)]
    /\ ret' = IF prov.err # NoErr /\ req[p].meta = Nil
              THEN [ret EXCEPT ![p] = ErrResult(prov.err)]
              ELSE ret

\* the days fetchFromProvider was called with
AskedDays(p) == IF cacheOn THEN req[p].fetchDays ELSE req[p].days

\* fetchFromProvider returns prov to fetchStockData
ProviderDone(p, prov) == IF cacheOn THEN Fetched(p, prov) ELSE Returned(p, prov)

\* FetchPERatio, the first request of fetchUSStock, comes back: with the
\* figures of the day, and FetchDailyPrices is sent; or with an error, and the
\* fallback fetchHKStock reads the clock and sends its request
PERatioAnswers(p, up) ==
    /\ pc[p] \in {"direct", "fetch"}
    /\ ~req[p].useYahoo
    /\ req' = IF up THEN [req EXCEPT ![p].peDay = DayOf(now)]
              ELSE [req EXCEPT ![p].endDate = DayOf(now)]
    /\ pc' = [pc EXCEPT ![p] = IF up THEN "prices" ELSE "yahoo"]
    /\ UNCHANGED <<now, cacheOn, daily_prices, fetch_log, ret, nreq, faults,
                 series, periodType, periods, resp>>

\* the branch on what fetchUSStock returned after its second request
PricesAnswered(p, us) ==
    IF us.err = NoErr
    THEN ProviderDone(p, FromMacrotrends(us))
    ELSE /\ req' = [req EXCEPT ![p].endDate = DayOf(now), ![p].peDay = 0]
         /\ pc' = [pc EXCEPT ![p] = "yahoo"]
         /\ ret' = ret

\* FetchDailyPrices, the second request of fetchUSStock, comes back
PricesAnswer(p, up) ==
    /\ pc[p] = "prices"
    /\ PricesAnswered(p, UsPrices(FundamentalData(req[p].peDay), AskedDays(p), now, up))
    /\ UNCHANGED <<now, cacheOn, daily_prices, fetch_log, nreq, faults,
                 series, periodType, periods, resp>>

\* the request of fetchHKStock comes back, sent first (useYahoo) or as the
\* fallback: the window is the one of the endDate read before the request
YahooAnswers(p, up) ==
    /\ \/ pc[p] \in {"direct", "fetch"} /\ req[p].useYahoo
       \/ pc[p] = "yahoo"
    /\ ProviderDone(p, FromYahoo(fetchHKStock(AskedDays(p), req[p].endDate, now, up), 0))
    /\ UNCHANGED <<now, cacheOn, daily_prices, fetch_log, nreq, faults,
                 series, periodType, periods, resp>>

\* the provider failed and meta != nil: the stale rows, or the provider's error
StaleServed(p, read) ==
    /\ req' = [req EXCEPT ![p].staleRead = ReadKind(read)]
    /\ ret' = [ret EXCEPT ![p] = StaleResult(req[p].meta, read, req[p].prov.err)]
    /\ pc' = [pc EXCEPT ![p] = "done"]

\* the read of the requested range after the provider failed
StaleRead(p, how) ==
    /\ pc[p] = "stale"
    /\ MayFail(how = NoFail)
    /\ faults' = Count(how = NoFail)
    /\ StaleServed(p, GetDailyPrices(daily_prices, req[p].symbol, req[p].startDate,
                                     req[p].today, how))
    /\ UNCHANGED <<now, cacheOn, daily_prices, fetch_log, nreq,
                 series, periodType, periods, resp>>

\* _ = cache.StoreDailyPrices(symbolUpper, data) returns, and the code runs on
\* to the call of UpdateFetchLog, whose argument takes LastFetched: time.Now()
Store(p, failAt) ==
    /\ pc[p] = "store"
    /\ MayFail(failAt = NoFail)
    /\ faults' = Count(failAt = NoFail)
    /\ LET res == StoreDailyPrices(daily_prices, req[p].symbol, req[p].prov.data, failAt)
       IN /\ daily_prices' = res.tbl
          /\ req' = [req EXCEPT ![p].store = res.err,
                       ![p].restore =
                           \A i \in 1..Len(req[p].prov.data) :
                               PriceRow(req[p].symbol, req[p].prov.data[i]) \in daily_prices,
                       ![p].lastFetched = now]
    /\ pc' = [pc EXCEPT ![p] = "log"]
    /\ UNCHANGED <<now, cacheOn, fetch_log, ret, nreq,
                 series, periodType, periods, resp>>

\* _ = cache.UpdateFetchLog(FetchMeta{...}) writes the entry made before it
\* was called
Log(p, ok) ==
    /\ pc[p] = "log"
    /\ MayFail(ok)
    /\ faults' = Count(ok)
    /\ LET res == UpdateFetchLog(fetch_log,
                      NewFetchMeta(req[p].symbol, req[p].meta, req[p].prov,
                                   req[p].lastFetched), ok)
       IN /\ fetch_log' = res.tbl
          /\ req' = [req EXCEPT ![p].log = res.err, ![p].lastFetched = 0]
    /\ pc' = [pc EXCEPT ![p] = "read"]
    /\ UNCHANGED <<now, cacheOn, daily_prices, ret, nreq,
                 series, periodType, periods, resp>>

\* the full range is read back from the cache and the call returns
ReadServed(p, read) ==
    /\ req' = [req EXCEPT ![p].backRead = ReadKind(read)]
    /\ ret' = [ret EXCEPT ![p] = FetchResult(req[p].prov, read)]
    /\ pc' = [pc EXCEPT ![p] = "done"]

\* the read-back of the requested range after the writes
ReadBack(p, how) ==
    /\ pc[p] = "read"
    /\ MayFail(how = NoFail)
    /\ faults' = Count(how = NoFail)
    /\ ReadServed(p, GetDailyPrices(daily_prices, req[p].symbol, req[p].startDate,
                                    req[p].today, how))
    /\ UNCHANGED <<now, cacheOn, daily_prices, fetch_log, nreq,
                 series, periodType, periods, resp>>

\* the caller has taken the result; the goroutine serves the next request
Finish(p) ==
    /\ pc[p] = "done"
    /\ req' = [req EXCEPT ![p] = IdleReq]
    /\ ret' = [ret EXCEPT ![p] = NoRet]
    /\ pc' = [pc EXCEPT ![p] = "idle"]
    /\ UNCHANGED <<now, cacheOn, daily_prices, fetch_log, nreq, faults,
                 series, periodType, periods, resp>>

\* the caller repeats the request it just got the result of: the same symbol
\* and days.  again records that the first call ran within this calendar day,
\* fetched from the provider and stored what it fetched.
Again(p, limit) ==
    /\ pc[p] = "done"
    /\ nreq < limit
    /\ nreq' = nreq + 1
    /\ req' = [req EXCEPT ![p] =
                  [IdleReq EXCEPT !.symbol = req[p].symbol, !.days = req[p].days,
                                  !.useYahoo = req[p].useYahoo, !.today = DayOf(now),
                                  !.startDate = DayOf(now) - req[p].days,
                                  !.endDate = IF cacheOn THEN 0
                                              ELSE YahooClock(req[p].useYahoo),
                                  !.again = /\ req[p].today = DayOf(now)
                                            /\ req[p].calls = 1
                                            /\ req[p].store = NoErr
                                            /\ req[p].log = NoErr]]
    /\ ret' = [ret EXCEPT ![p] = NoRet]
    /\ pc' = [pc EXCEPT ![p] = IF cacheOn THEN "meta" ELSE "direct"]
    /\ UNCHANGED <<now, cacheOn, daily_prices, fetch_log, faults,
                 series, periodType, periods, resp>>

\* where StoreDailyPrices may fail
FailPoints(p) == 0..(Len(req[p].prov.data) + 1)

\* how a GetDailyPrices of the requested range may fail: at the Query or a
\* Scan, or at rows.Next after any number of the rows of the range
ReadFailPoints(p) ==
    {QueryFail} \cup
        0..Cardinality({r \in daily_prices : /\ r.symbol = req[p].symbol
                                             /\ r.date >= req[p].startDate
                                             /\ r.date <= req[p].today})

\* the ways a read may end when its outcomes are oks
ReadEnds(p, oks) == {NoFail} \cup (IF FALSE \in oks THEN ReadFailPoints(p) ELSE {})

\* the steps of a call after its entry; oks are the outcomes the reads of the
\* storage may have (TRUE: success), woks those of its writes, ups whether an
\* upstream may answer (TRUE) or fail, limit the calls issued
Step(p, oks, woks, ups, limit) ==
    \/ \E ok \in oks : Lookup(p, ok)
    \/ \E how \in ReadEnds(p, oks) : HitRead(p, how)
    \/ \E up \in ups : PERatioAnswers(p, up)
    \/ \E up \in ups : PricesAnswer(p, up)
    \/ \E up \in ups : YahooAnswers(p, up)
    \/ \E how \in ReadEnds(p, oks) : StaleRead(p, how)
    \/ \E failAt \in {NoFail} \cup (IF FALSE \in woks THEN FailPoints(p) ELSE {}) :
           Store(p, failAt)
    \/ \E ok \in woks : Log(p, ok)
    \/ \E how \in ReadEnds(p, oks) : ReadBack(p, how)
    \/ Finish(p)
    \/ Again(p, limit)

\* a request arrives and is given to the first goroutine that is free
Enter(p, limit) ==
    /\ \A q \in Procs : q < p => pc[q] # "idle"
    /\ \E symbol \in Symbols, days \in RequestDays, useYahoo \in BOOLEAN :
           Call(p, symbol, days, useYahoo, limit)

\* requests are served one at a time
EnterAlone(p, limit) == (\A q \in Procs : pc[q] = "idle") /\ Enter(p, limit)

\* the clock moves between requests only
IdleTick(limit) == (\A q \in Procs : pc[q] = "idle") /\ Tick(limit)

\* The server: requests served concurrently, one goroutine each.
Next ==
    \/ Tick(RaceHorizon)
    \/ \E p \in Procs : Enter(p, MaxRequests)
    \/ \E p \in Procs : Step(p, BOOLEAN, BOOLEAN, BOOLEAN, MaxRequests)

Spec == Init /\ [][Next]_vars

\* The server under requests that come one after the other.
NextSeq ==
    \/ Tick(Horizon)
    \/ \E p \in Procs : EnterAlone(p, MaxRequests)
    \/ \E p \in Procs : Step(p, BOOLEAN, BOOLEAN, BOOLEAN, MaxRequests)

SpecSeq == Init /\ [][NextSeq]_vars

\* The same over a longer time, with a storage that never fails.
NextQuiet ==
    \/ IdleTick(LongHorizon)
    \/ \E p \in Procs : EnterAlone(p, LongRequests)
    \/ \E p \in Procs : Step(p, {TRUE}, {TRUE}, BOOLEAN, LongRequests)

SpecQuiet == Init /\ [][NextQuiet]_vars

\* The same with a storage whose reads may fail and whose writes never do.
NextReads ==
    \/ IdleTick(LongHorizon)
    \/ \E p \in Procs : EnterAlone(p, LongRequests)
    \/ \E p \in Procs : Step(p, BOOLEAN, {TRUE}, BOOLEAN, LongRequests)

SpecReads == Init /\ [][NextReads]_vars

\* ------------------------------------------------------- period aggregation
\* AggregateToPeriods on its own, as the handlers call it on a series they have
\* reversed to oldest first.  The series are those the providers build from a
\* few bars on a few trading days around the turn of the year 2024/2025.
\* Fri 2024-12-20, Fri 12-27, Mon 12-30, Tue 12-31, Thu 2025-01-02
SampleDates == {354, 361, 364, 365, 367}
SampleBars ==
    {[open |-> 505, high |-> 510, low |-> 490, close |-> 500, volume |-> 0],
     [open |-> 495, high |-> 500, low |-> 480, close |-> 490, volume |-> 45],
     [open |-> 485, high |-> 488, low |-> 470, close |-> 475, volume |-> 150000]}

DatedBar(date, bar) ==
    [date |-> date, open |-> bar.open, high |-> bar.high, low |-> bar.low,
     close |-> bar.close, volume |-> bar.volume]

\* the series of n days, oldest first, as fetchUSStock (withPE) or
\* parseYahooChartData builds them
SeriesOfLen(n) ==
    {ToStockData([i \in 1..n |-> DatedBar(s[i][1], s[i][2])], withPE,
                 FundamentalData(s[n][1])) :
        withPE \in BOOLEAN,
        s \in {t \in [1..n -> SampleDates \X SampleBars] :
                  \A i \in 1..(n - 1) : t[i][1] < t[i + 1][1]}}

InitPeriods ==
    /\ now = StartTick
    /\ cacheOn = FALSE
    /\ daily_prices = {}
    /\ fetch_log = {}
    /\ pc = [p \in Procs |-> "idle"]
    /\ req = [p \in Procs |-> IdleReq]
    /\ ret = [p \in Procs |-> NoRet]
    /\ nreq = 0
    /\ faults = 0
    /\ series \in UNION {SeriesOfLen(n) : n \in 0..MaxSeries}
    /\ periodType = ""
    /\ periods = <<>>
    /\ resp = NoResp

\* a handler aggregates the series it holds: AggregateToPeriods(reversedData,
\* periodType), with a period type that ParsePeriodType accepted
Aggregate(pt) ==
    /\ periodType = ""
    /\ periodType' = pt
    /\ periods' = AggregateToPeriods(series, pt)
    /\ UNCHANGED <<now, cacheOn, daily_prices, fetch_log, pc, req, ret, nreq, faults, series,
                   resp>>

NextPeriods == \E pt \in PeriodTypes : Aggregate(pt)

SpecPeriods == InitPeriods /\ [][NextPeriods]_vars

\* ---------------------------------------------------- the HTTP handlers
\* One request, which passes Server.ServeHTTP and, unless answered there, is
\* served by handleStock or handleStockExcel on a goroutine of the server.  The handlers call the providers through
\* fetchStockData(symbol, days, useYahoo), whose requests block while the clock
\* moves.
InitHandlers ==
    /\ now = StartTick
    /\ cacheOn = FALSE
    /\ daily_prices = {}
    /\ fetch_log = {}
    /\ pc = [p \in Procs |-> "idle"]
    /\ req = [p \in Procs |-> IdleReq]
    /\ ret = [p \in Procs |-> NoRet]
    /\ nreq = 0
    /\ faults = 0
    /\ series = <<>>
    /\ periodType = ""
    /\ periods = <<>>
    /\ resp = NoResp

\* Server.ServeHTTP, which every request passes: it sets the CORS headers and
\* answers a request of method OPTIONS itself, with status 200; any other
\* request goes on to the router and the handler of its path
ServeHTTP(method) ==
    /\ resp = NoResp
    /\ method = "OPTIONS"
    /\ resp' = Reply(Request("", method, <<>>, <<>>), 200, FALSE)
    /\ UNCHANGED <<now, cacheOn, daily_prices, fetch_log, pc, req, ret, nreq, faults,
                   series, periodType, periods>>

\* writeError before the fetch
Rejected(q, status) ==
    /\ resp' = Reply(q, status, FALSE)
    /\ UNCHANGED <<pc, req, ret>>

\* fetchStockData(symbol, days, useYahoo) is entered on goroutine p and sends
\* its first request
Fetching(p, q, days, useYahoo) ==
    /\ resp' = q
    /\ req' = [req EXCEPT ![p] = [IdleReq EXCEPT !.days = days, !.useYahoo = useYahoo,
                                                !.endDate = YahooClock(useYahoo)]]
    /\ pc' = [pc EXCEPT ![p] = "direct"]
    /\ ret' = ret

\* /api/stock/{symbol}?days=..&period=.. up to the call of fetchStockData: 405
\* for a method other than GET, 400 without a symbol, 400 for a period outside
\* validPeriods
handleStock(p, method, symbol, days, param) ==
    /\ resp = NoResp
    /\ pc[p] = "idle"
    /\ LET q == Request("stock", method, symbol, QueryPeriod(param))
       IN IF method # "GET" THEN Rejected(q, 405)
          ELSE IF symbol = <<>> THEN Rejected(q, 400)
          ELSE IF q.period \notin validPeriods THEN Rejected(q, 400)
          ELSE Fetching(p, q, days, isHKStock(symbol))
    /\ UNCHANGED <<now, cacheOn, daily_prices, fetch_log, nreq, faults,
                   series, periodType, periods>>

\* /api/stock-excel/{symbol}?days=..&period=.. up to the call of
\* fetchStockData: 405 for a method other than GET, 400 without a symbol; the
\* symbol is upper-cased and the period is not looked at
handleStockExcel(p, method, symbol, days, param) ==
    /\ resp = NoResp
    /\ pc[p] = "idle"
    /\ LET q == Request("stock-excel", method, ToUpper(symbol), QueryPeriod(param))
       IN IF method # "GET" THEN Rejected(q, 405)
          ELSE IF symbol = <<>> THEN Rejected(q, 400)
          ELSE Fetching(p, q, days, isHKStock(ToUpper(symbol)))
    /\ UNCHANGED <<now, cacheOn, daily_prices, fetch_log, nreq, faults,
                   series, periodType, periods>>

\* fetchStockData returned to the handler on goroutine p, which writes its
\* answer
Answered(p, reply) ==
    /\ pc[p] = "done"
    /\ resp.status = 0
    /\ resp' = reply
    /\ pc' = [pc EXCEPT ![p] = "idle"]
    /\ req' = [req EXCEPT ![p] = IdleReq]
    /\ ret' = [ret EXCEPT ![p] = NoRet]
    /\ UNCHANGED <<now, cacheOn, daily_prices, fetch_log, nreq, faults,
                   series, periodType, periods>>
handleStockFetched(p) ==
    resp.handler = "stock" /\ Answered(p, StockReply(resp, ret[p]))
handleStockExcelFetched(p) ==
    resp.handler = "stock-excel" /\ Answered(p, ExcelReply(resp, ret[p]))

\* the days parameter of the requests to the handlers
HandlerDays == {1, 3}

NextHandlers ==
    \/ Tick(Horizon)
    \/ \E method \in {"GET", "POST", "OPTIONS"} : ServeHTTP(method)
    \/ \E p \in Procs :
         \* the requests the router gets
         \/ \E method \in {"GET", "POST"}, symbol \in HandlerSymbols, days \in HandlerDays,
               param \in PeriodParams :
               \/ handleStock(p, method, symbol, days, param)
               \/ handleStockExcel(p, method, symbol, days, param)
         \/ \E up \in BOOLEAN :
               \/ PERatioAnswers(p, up)
               \/ PricesAnswer(p, up)
               \/ YahooAnswers(p, up)
         \/ handleStockFetched(p)
         \/ handleStockExcelFetched(p)

SpecHandlers == InitHandlers /\ [][NextHandlers]_vars

TypeOK ==
    /\ now \in StartTick..(StartTick + LongHorizon)
    /\ cacheOn \in BOOLEAN
    /\ pc \in [Procs -> {"idle", "direct", "meta", "hit", "fetch", "prices", "yahoo",
                         "stale", "store", "log", "read", "done"}]
    /\ nreq \in 0..LongRequests
    /\ faults \in 0..MaxFaults
    /\ periodType \in PeriodTypes \cup {""}
    /\ Len(series) <= MaxSeries
    /\ Len(periods) <= Len(series)

\* -------------------------------------------------------------- properties
Done(p) == pc[p] = "done"
DatesOf(data) == {data[i].date : i \in 1..Len(data)}

\* what a read of the requested range of call p returns from the tables as
\* they stand
RangeNow(p) ==
    GetDailyPrices(daily_prices, req[p].symbol, req[p].startDate, req[p].today, NoFail).data

\* fetch_log was found, fresh, and covering the requested start
FreshAndCovered(p) ==
    /\ req[p].meta # Nil
    /\ req[p].fresh
    /\ req[p].meta.earliest_date <= req[p].startDate

\* C1 as stated: a call that found fetch_log fresh and covering the requested
\* start is served from the cache and makes no Provider call.
C1_FreshHitNeverFetches ==
    \A p \in Procs :
        Done(p) /\ FreshAndCovered(p)
            => req[p].calls = 0 /\ req[p].hitRead = "rows"

\* C1 amended: a call that found fetch_log fresh and covering the requested
\* start, and whose read of the requested range returned rows without error,
\* makes no Provider call and returns those rows with the EPS, company name and
\* P/E flag of fetch_log.
C1_FreshHitServed ==
    \A p \in Procs :
        Done(p) /\ FreshAndCovered(p) /\ req[p].hitRead = "rows"
            => /\ req[p].calls = 0
               /\ ret[p].err = NoErr
               /\ ret[p].data # <<>>
               /\ ret[p].data = RangeNow(p)
               /\ ret[p].ttmEPS = req[p].meta.ttm_eps
               /\ ret[p].companyName = req[p].meta.company_name
               /\ ret[p].includePE = (req[p].meta.source = "macrotrends")

\* a call was served by the cache hit, from rows macrotrends supplied
C1_Witness ==
    \E p \in Procs :
        /\ Done(p) /\ FreshAndCovered(p) /\ req[p].hitRead = "rows"
        /\ req[p].meta.source = "macrotrends"
        /\ Len(ret[p].data) > 1

\* C2 as stated: a call repeated on the same calendar day for the same symbol
\* and days, after a call that fetched from the Provider and stored rows and
\* fetch_log, is served from the cache without a Provider call.
C2_SameDayRepeatIsCached ==
    \A p \in Procs :
        Done(p) /\ req[p].again => req[p].calls = 0

\* the repeated call of C2 that did reach the cache hit
C2_RepeatServed ==
    \E p \in Procs : Done(p) /\ req[p].again /\ req[p].calls = 0

\* the entry fetch_log holds for the symbol of call p, whatever the call read
Logged(p) == FetchMetaOf(fetch_log, req[p].symbol)

\* call p is inside the fetchFromProvider of a fetchStockData with a cache
InProvider(p) == cacheOn /\ pc[p] \in {"fetch", "prices", "yahoo"}

\* the step of call p in which its Provider call returns
ProviderReturns(p) == InProvider(p) /\ pc'[p] \notin {"fetch", "prices", "yahoo"}

\* what the Provider call of p does: it is called with fetchDays, once, and
\* what it gives is what the upstream that answered last has for fetchDays
AsksFetchDays(p) ==
    ProviderReturns(p)
        => /\ req'[p].asked = req[p].fetchDays
           /\ req'[p].calls = 1
           /\ req'[p].prov =
                  IF pc[p] = "prices"
                  THEN FromMacrotrends(UsPrices(FundamentalData(req[p].peDay),
                                                req[p].fetchDays, now, TRUE))
                  ELSE FromYahoo(fetchHKStock(req[p].fetchDays, req[p].endDate, now,
                                              req'[p].prov.err = NoErr), 0)

\* C3: the days asked of the Provider are min(days, whole days since
\* last_fetched + 5) when fetch_log has an entry covering the requested start
\* that is not fresh, and days when there is no entry or it does not cover the
\* start; the Provider is called with exactly that number.
C3_FetchDaysOfLog ==
    [][\A p \in Procs :
         /\ (pc[p] \in {"meta", "hit"} /\ pc'[p] = "fetch")
               => LET m == Logged(p)
                      r == req'[p]
                      covered == m # Nil /\ m.earliest_date <= r.startDate
                  IN /\ (covered /\ ~IsFresh(m, now))
                           => r.fetchDays =
                                  Min(r.days,
                                      ((now - m.last_fetched) \div TicksPerDay)
                                          + DeltaMargin)
                     /\ ~covered => r.fetchDays = r.days
         /\ AsksFetchDays(p)]_vars

\* a call is about to ask the Provider for a delta shorter than the requested
\* days, a calendar day after the last fetch but less than 24 hours later
C3_Witness ==
    \E p \in Procs :
        /\ pc[p] = "fetch"
        /\ req[p].meta # Nil
        /\ req[p].meta.earliest_date <= req[p].startDate
        /\ ~req[p].fresh
        /\ req[p].fetchDays < req[p].days
        /\ now - req[p].meta.last_fetched < TicksPerDay

\* C4: when the Provider failed and fetch_log holds an entry for the
\* symbol with rows stored in the requested range, the call returns those rows
\* with no error and with the EPS, company name and P/E flag of the entry.
C4_StaleFallbackOfLog ==
    \A p \in Procs :
        (/\ Done(p)
         /\ req[p].calls = 1
         /\ req[p].prov.err # NoErr
         /\ Logged(p) # Nil
         /\ RangeNow(p) # <<>>)
            => /\ ret[p].err = NoErr
               /\ ret[p].data = RangeNow(p)
               /\ ret[p].ttmEPS = Logged(p).ttm_eps
               /\ ret[p].companyName = Logged(p).company_name
               /\ ret[p].includePE = (Logged(p).source = "macrotrends")

\* the Provider failed on a stale entry macrotrends had supplied, and the
\* cached rows were returned
C4_Witness ==
    \E p \in Procs :
        /\ Done(p)
        /\ req[p].calls = 1
        /\ req[p].prov.err # NoErr
        /\ req[p].meta # Nil
        /\ req[p].meta.source = "macrotrends"
        /\ ~req[p].fresh
        /\ req[p].staleRead = "rows"

\* C5: a call returns an error only when the Provider failed and
\* either fetch_log has no entry for the symbol or the read of the cached range
\* gave no rows (there are none, or the read failed); the error is the
\* Provider's own.
C5_ErrorOnlyWithoutLog ==
    \A p \in Procs :
        Done(p) /\ ret[p].err # NoErr
            => /\ req[p].calls = 1
               /\ ret[p].err = req[p].prov.err
               /\ \/ Logged(p) = Nil
                  \/ req[p].staleRead \in {"empty", "error"}
                  \/ RangeNow(p) = <<>>

\* the Provider failed on an existing entry and the cache read failed too: the
\* Provider's error came back
C5_Witness ==
    \E p \in Procs :
        /\ Done(p)
        /\ ret[p].err = "yahoo failed"
        /\ req[p].meta # Nil
        /\ req[p].staleRead = "error"

Earliest(data) == CHOOSE d \in DatesOf(data) : \A e \in DatesOf(data) : d <= e

\* C6: no step moves fetch_log.earliest_date of a symbol to a later date or
\* removes the entry, and the UpdateFetchLog of a fetch sets it to the earlier
\* of the previous earliest_date and the earliest date of the fetched records.
C6_EarliestOnlyWidens ==
    [][\A s \in Symbols :
         LET old == FetchMetaOf(fetch_log, s)
             new == FetchMetaOf(fetch_log', s)
         IN /\ old # Nil => new # Nil /\ new.earliest_date <= old.earliest_date
            /\ \A p \in Procs :
                 (/\ pc[p] = "log" /\ pc'[p] = "read"
                  /\ req[p].symbol = s
                  /\ req'[p].log = NoErr)
                    => /\ new # Nil
                       /\ new.earliest_date =
                              IF old = Nil THEN Earliest(req[p].prov.data)
                              ELSE Min(old.earliest_date, Earliest(req[p].prov.data))]_vars

\* a fetch whose records all lie after the earliest_date already logged has
\* written fetch_log
C6_Witness ==
    \E p \in Procs :
        /\ pc[p] = "read"
        /\ req[p].log = NoErr
        /\ req[p].meta # Nil
        /\ req[p].meta.earliest_date < Earliest(req[p].prov.data)
        /\ \E m \in fetch_log : m.earliest_date = req[p].meta.earliest_date

\* the Provider call of p succeeded on the delta window of a covered entry
DeltaFetched(p) ==
    /\ req[p].calls = 1
    /\ req[p].prov.err = NoErr
    /\ req[p].meta # Nil
    /\ req[p].meta.earliest_date <= req[p].startDate
    /\ req[p].asked < req[p].days

\* what the provider that served p would have returned for the full days
FullFetch(p) ==
    IF req[p].prov.includePE
    THEN UsPrices(FetchPERatio(now), req[p].days, now, TRUE).data
    ELSE fetchHKStock(req[p].days, DayOf(now), now, TRUE).data

\* the dates of the requested range that a full fetch would have returned
FullDates(p) ==
    {d \in DatesOf(FullFetch(p)) : d >= req[p].startDate /\ d <= req[p].today}

\* C7 as stated: after a successful delta fetch the series returned for the
\* requested range has every date of that range that a fetch of the full
\* requested days would have returned.
C7_DeltaLeavesNoGap ==
    \A p \in Procs :
        Done(p) /\ DeltaFetched(p) => FullDates(p) \subseteq DatesOf(ret[p].data)

\* a delta fetch that did return the whole range
C7_DeltaComplete ==
    \E p \in Procs :
        /\ Done(p) /\ DeltaFetched(p)
        /\ ~req[p].fresh
        /\ Cardinality(FullDates(p)) > req[p].asked
        /\ FullDates(p) \subseteq DatesOf(ret[p].data)

\* rows and fetch_log entry of a symbol are there together, the entry's latest
\* date among the rows
TablesAgree ==
    \A s \in Symbols :
        LET m == FetchMetaOf(fetch_log, s)
            rows == {r \in daily_prices : r.symbol = s}
        IN /\ (m = Nil) <=> (rows = {})
           /\ m # Nil => \E r \in rows : r.date = m.latest_date

\* C8 as stated: the rows and the fetch_log entry of a fetch are written
\* together: a call that has made its writes has made both or neither, and no
\* other request starts while the tables hold the one without the other.
C8_RowsAndLogTogether ==
    \A p \in Procs :
        /\ (pc[p] \in {"read", "done"} /\ req[p].store # "none")
              => ((req[p].store = NoErr) <=> (req[p].log = NoErr))
        /\ pc[p] = "meta" => TablesAgree

\* a fetch wrote its rows and its fetch_log entry, both with success
C8_BothWritten ==
    \E p \in Procs :
        /\ pc[p] = "read"
        /\ req[p].store = NoErr /\ req[p].log = NoErr
        /\ TablesAgree

\* the dates a range may start or end at
MaxDay == DayOf(StartTick + LongHorizon)
Days == 0..MaxDay

\* what GetDailyPrices returns for every range of dates
Ranges == {r \in Days \X Days : r[1] <= r[2]}
AllReads(tbl, symbol) ==
    [r \in Ranges |-> GetDailyPrices(tbl, symbol, r[1], r[2], NoFail).data]

\* GetDailyPrices returns the same from both tables, for every range (equal
\* tables are not read)
SameReads(t1, t2, symbol) == t1 = t2 \/ AllReads(t1, symbol) = AllReads(t2, symbol)

\* the stored values of a record, and of the records of a read
Values(d) ==
    [date |-> d.date, open |-> d.open, high |-> d.high, low |-> d.low,
     close |-> d.close, volume |-> d.volume, pe |-> d.pe]
ValuesOf(rows) == {Values(rows[i]) : i \in 1..Len(rows)}

\* C9: a StoreDailyPrices that returns an error leaves every read of
\* GetDailyPrices as it was; one that returns success makes every record of the
\* call visible to GetDailyPrices with the values given.
C9_StoreAllOrNothing ==
    [][\A p \in Procs :
         (pc[p] = "store" /\ pc'[p] = "log")
            => LET data == req[p].prov.data
                   s == req[p].symbol
                   all == GetDailyPrices(daily_prices', s, 0, MaxDay, NoFail).data
               IN IF req'[p].store # NoErr
                  THEN SameReads(daily_prices', daily_prices, s)
                  ELSE /\ ValuesOf(data) \subseteq ValuesOf(all)
                       /\ \A i \in 1..Len(data) :
                             Values(data[i]) \in
                                 ValuesOf(GetDailyPrices(daily_prices', s, data[i].date,
                                                         data[i].date, NoFail).data)]_vars

\* a StoreDailyPrices of several records, none of them in the table, failed
C9_Witness ==
    \E p \in Procs :
        /\ pc[p] = "log"
        /\ req[p].store = StorageErr
        /\ Len(req[p].prov.data) > 1
        /\ daily_prices = {}

\* C10: storing a record set that is already stored leaves the output of
\* GetDailyPrices for every range as it was, both when the program stores the
\* records of a repeated fetch and when the store just made is made once more.
C10_StoreIdempotent ==
    [][\A p \in Procs :
         (pc[p] = "store" /\ pc'[p] = "log" /\ req'[p].store = NoErr)
            => LET data == req[p].prov.data
                   s == req[p].symbol
                   twice == StoreDailyPrices(daily_prices', s, data, NoFail)
               IN /\ twice.err = NoErr
                  /\ SameReads(twice.tbl, daily_prices', s)
                  /\ req'[p].restore
                        => SameReads(daily_prices', daily_prices, s)]_vars

\* the program has stored, with success, records that were all stored before
C10_Witness ==
    \E p \in Procs :
        /\ pc[p] = "log"
        /\ req[p].store = NoErr
        /\ req[p].restore
        /\ Len(req[p].prov.data) > 1

\* the primary keys of a table of daily_prices
KeysOf(tbl) == {<<r.symbol, r.date>> : r \in tbl}

\* C11: daily_prices holds one row per (symbol, date); no step removes the row
\* of a date; a StoreDailyPrices that succeeds leaves, for every date of its
\* records, the row with the values of that call, and every other row as it
\* was.
C11_UpsertOnly ==
    [][/\ Cardinality(KeysOf(daily_prices')) = Cardinality(daily_prices')
       /\ KeysOf(daily_prices) \subseteq KeysOf(daily_prices')
       /\ \A p \in Procs :
            (pc[p] = "store" /\ pc'[p] = "log" /\ req'[p].store = NoErr)
               => LET data == req[p].prov.data
                      s == req[p].symbol
                      stored == {PriceRow(s, data[i]) : i \in 1..Len(data)}
                  IN /\ stored \subseteq daily_prices'
                     /\ KeysOf(daily_prices') = KeysOf(daily_prices) \cup KeysOf(stored)
                     /\ \A r \in daily_prices :
                           <<r.symbol, r.date>> \notin KeysOf(stored)
                               => r \in daily_prices']_vars

\* no storage call has failed, the entry read at the start was written by a
\* Yahoo fetch (rows without P/E), and a macrotrends fetch has now stored a
\* record for the latest date of that fetch: the row was overwritten
C11_Witness ==
    \E p \in Procs :
        /\ pc[p] = "log"
        /\ faults = 0
        /\ req[p].store = NoErr
        /\ req[p].meta # Nil
        /\ req[p].meta.source = "yahoo"
        /\ req[p].prov.includePE
        /\ req[p].meta.latest_date \in DatesOf(req[p].prov.data)
        /\ \E r \in daily_prices :
              r.date = req[p].meta.latest_date /\ r.pe # Empty

\* C12: every fetch_log row has earliest_date <= latest_date.
C12_EarliestNotAfterLatest ==
    \A m \in fetch_log : m.earliest_date <= m.latest_date

\* a delta fetch has written an entry whose earliest_date, kept from the entry
\* before, is earlier than every record fetched and than latest_date
C12_Witness ==
    \E p \in Procs :
        /\ pc[p] = "read"
        /\ req[p].log = NoErr
        /\ req[p].meta # Nil
        /\ Len(req[p].prov.data) > 1
        /\ req[p].meta.earliest_date < Earliest(req[p].prov.data)
        /\ \E m \in fetch_log :
              /\ m.earliest_date = req[p].meta.earliest_date
              /\ m.latest_date = req[p].prov.data[1].date
              /\ m.earliest_date < m.latest_date

\* the calendar day of tick t and its time of day
CalendarDay(t) == CHOOSE d \in 0..t : d * TicksPerDay <= t /\ t < (d + 1) * TicksPerDay
TimeOfDay(t) == t - CalendarDay(t) * TicksPerDay

\* C13: IsFresh of a fetch_log entry is true exactly when last_fetched lies on
\* the calendar day of now, at any time of that day, and the lookup of a call
\* takes the entry for fresh on exactly that condition.
C13_FreshIffSameCalendarDay ==
    [][/\ \A m \in fetch_log :
            IsFresh(m, now) <=> (CalendarDay(m.last_fetched) = CalendarDay(now))
       /\ \A p \in Procs :
            (pc[p] = "meta" /\ pc'[p] # "meta")
               => (req'[p].fresh
                      <=> /\ req'[p].meta # Nil
                          /\ CalendarDay(req'[p].meta.last_fetched) = CalendarDay(now))]_vars

\* an entry fetched earlier the same day, at another time of day, was found
\* fresh
C13_Witness ==
    \E p \in Procs :
        /\ pc[p] = "hit"
        /\ req[p].fresh
        /\ TimeOfDay(req[p].meta.last_fetched) # TimeOfDay(now)
        /\ CalendarDay(req[p].meta.last_fetched) = CalendarDay(now)

\* an entry fetched the day before, less than 24 hours ago, was found stale
C13_WitnessStale ==
    \E p \in Procs :
        /\ pc[p] = "fetch"
        /\ req[p].meta # Nil
        /\ ~req[p].fresh
        /\ now - req[p].meta.last_fetched < TicksPerDay

\* C14: CoversRange(start) of a fetch_log entry is true exactly when start is
\* not before earliest_date, equality included, and a call reaches the cache
\* hit only with a fresh entry whose earliest_date is not after its start date.
C14_CoversIffNotBefore ==
    [][/\ \A m \in fetch_log : \A start \in Days :
            /\ CoversRange(m, start) <=> ~(start < m.earliest_date)
            /\ start = m.earliest_date => CoversRange(m, start)
            /\ start + 1 = m.earliest_date => ~CoversRange(m, start)
       /\ \A p \in Procs :
            (pc[p] = "meta" /\ pc'[p] # "meta")
               => ((pc'[p] = "hit")
                      <=> /\ req'[p].meta # Nil
                          /\ req'[p].fresh
                          /\ req'[p].startDate >= req'[p].meta.earliest_date)]_vars

\* a call whose start date is the earliest_date itself went to the cache hit
C14_Witness ==
    \E p \in Procs :
        /\ pc[p] = "hit"
        /\ req[p].meta.earliest_date = req[p].startDate

\* a call whose start date is the day before earliest_date did not
C14_WitnessBefore ==
    \E p \in Procs :
        /\ pc[p] = "fetch"
        /\ req[p].meta # Nil
        /\ req[p].fresh
        /\ req[p].hitRead = "none"
        /\ req[p].startDate + 1 = req[p].meta.earliest_date

\* the result of call p is the result of a GetDailyPrices of its range
ServedByRead(p) ==
    /\ Done(p)
    /\ \/ req[p].hitRead = "rows"
       \/ req[p].staleRead = "rows"
       \/ req[p].backRead = "rows"

\* C15: the chronologically first row of what GetDailyPrices returns (the last
\* element) has empty Change and empty HChange, for the range of every call
\* served by a read and for every start date, also when the cache holds an
\* earlier row of the symbol.
C15_FirstRowHasNoChange ==
    \A p \in Procs :
        ServedByRead(p)
            => /\ ret[p].data[Len(ret[p].data)].change = Empty
               /\ ret[p].data[Len(ret[p].data)].hchange = Empty
               /\ \A lo \in Days :
                    LET rows == GetDailyPrices(daily_prices, req[p].symbol, lo,
                                               req[p].today, NoFail).data
                    IN rows # <<>>
                          => /\ rows[Len(rows)].date >= lo
                             /\ rows[Len(rows)].change = Empty
                             /\ rows[Len(rows)].hchange = Empty

\* a call was served several rows by a read while the cache held an earlier
\* row of the symbol, with a close and a high to compare with
C15_Witness ==
    \E p \in Procs :
        /\ ServedByRead(p)
        /\ Len(ret[p].data) > 1
        /\ \E r \in daily_prices :
              /\ r.symbol = req[p].symbol
              /\ r.date < ret[p].data[Len(ret[p].data)].date
              /\ r.close > 0 /\ r.high > 0

\* the percentage move of a over b, in hundredths of a percent
Pct(a, b) == PctChange(a, b)[1]

\* C16 as stated: every row returned by GetDailyPrices but the chronologically
\* first has a Change, the move of its close over the previous returned close,
\* and an HChange, the move of its close over the previous returned high.
C16_ChangesNeverEmpty ==
    \A p \in Procs :
        ServedByRead(p)
            => \A i \in 1..(Len(ret[p].data) - 1) :
                  LET row == ret[p].data[i]
                      prev == ret[p].data[i + 1]
                  IN /\ row.change # Empty
                     /\ row.hchange # Empty
                     /\ prev.close > 0 => row.change = Str(Pct(row.close, prev.close))
                     /\ prev.high > 0 => row.hchange = Str(Pct(row.close, prev.high))

\* C16 amended: every row returned by GetDailyPrices but the chronologically
\* first has as Change the move of its close over the previous returned close
\* when that close is positive, and as HChange the move of its close over the
\* previous returned high when that high is positive; a field whose reference
\* value is zero (missing or unparsable) is empty.
C16_ChangesAgainstPrevious ==
    \A p \in Procs :
        ServedByRead(p)
            => \A i \in 1..(Len(ret[p].data) - 1) :
                  LET row == ret[p].data[i]
                      prev == ret[p].data[i + 1]
                  IN /\ row.change = IF prev.close > 0
                                     THEN Str(Pct(row.close, prev.close)) ELSE Empty
                     /\ row.hchange = IF prev.high > 0
                                      THEN Str(Pct(row.close, prev.high)) ELSE Empty

\* a read returned a row whose HChange differs from the move over its own high
\* and a row after a day without a high
C16_Witness ==
    \E p \in Procs :
        /\ ServedByRead(p)
        /\ \E i \in 1..(Len(ret[p].data) - 1) :
              /\ ret[p].data[i + 1].high > 0
              /\ ret[p].data[i].high > 0
              /\ ret[p].data[i].hchange # Str(Pct(ret[p].data[i].close, ret[p].data[i].high))
              /\ ret[p].data[i].hchange # ret[p].data[i].change
        /\ \E i \in 1..(Len(ret[p].data) - 1) :
              /\ ret[p].data[i + 1].high = 0
              /\ ret[p].data[i].hchange = Empty
              /\ ret[p].data[i].change # Empty

\* the Provider call of p succeeded
ProviderAnswered(p) == req[p].calls = 1 /\ req[p].prov.err = NoErr

\* C17: a call whose Provider call succeeded returns no error, whatever
\* StoreDailyPrices, UpdateFetchLog and the read-back did; when the read-back
\* failed or was empty it returns the Provider's records, otherwise the range
\* as the cache holds it.
C17_CacheIsAdvisory ==
    \A p \in Procs :
        Done(p) /\ ProviderAnswered(p)
            => /\ ret[p].err = NoErr
               /\ ret[p].ttmEPS = req[p].prov.ttmEPS
               /\ ret[p].companyName = req[p].prov.companyName
               /\ req[p].backRead \in {"error", "empty", "none"}
                     => ret[p].data = req[p].prov.data
               /\ req[p].backRead = "rows" => ret[p].data = RangeNow(p)

\* the read-back failed after a fetch that was stored, and the Provider's
\* records came back
C17_Witness ==
    \E p \in Procs :
        /\ Done(p) /\ ProviderAnswered(p)
        /\ req[p].store = NoErr
        /\ req[p].backRead = "error"
        /\ Len(ret[p].data) > 0
        /\ ret[p].err = NoErr

\* the source fetch_log records for the symbol of p is macrotrends
LoggedMacrotrends(p) ==
    \E m \in fetch_log : m.symbol = req[p].symbol /\ m.source = "macrotrends"

\* C18 as stated: on every return without error, with a cache, hasPE is true
\* exactly when the source fetch_log records for the symbol after the call is
\* macrotrends.
C18_FlagIsLoggedSource ==
    \A p \in Procs :
        Done(p) /\ cacheOn /\ ret[p].err = NoErr
            => (ret[p].includePE <=> LoggedMacrotrends(p))

\* C18 amended: on a return served from the cache (hit, or stale rows after a
\* Provider failure) hasPE is true exactly when the source of the fetch_log
\* entry is macrotrends; on a return after a Provider success hasPE is true
\* exactly when macrotrends answered, which is the source fetch_log records
\* after the call whenever the call wrote fetch_log.
C18_FlagIsServingSource ==
    \A p \in Procs :
        Done(p) /\ cacheOn /\ ret[p].err = NoErr
            => IF ProviderAnswered(p)
               THEN /\ ret[p].includePE = req[p].prov.includePE
                    /\ ret[p].includePE => ~req[p].useYahoo
                    /\ req[p].log = NoErr => (ret[p].includePE <=> LoggedMacrotrends(p))
               ELSE /\ req[p].meta # Nil
                    /\ ret[p].includePE <=> (req[p].meta.source = "macrotrends")
                    /\ ret[p].includePE <=> LoggedMacrotrends(p)

\* a macrotrends fetch replaced an entry that Yahoo had supplied
C18_Witness ==
    \E p \in Procs :
        /\ Done(p) /\ cacheOn /\ ProviderAnswered(p)
        /\ req[p].log = NoErr
        /\ ret[p].includePE
        /\ req[p].meta # Nil
        /\ req[p].meta.source = "yahoo"
        /\ LoggedMacrotrends(p)

\* the days of the series that fall in period p, oldest first
MemberDays(p) == SortDays(PeriodGroup(series, periodType, p.Period))

\* the counters of bucket b of period p
DropCount(p, b) ==
    CASE b = 2 -> p.Drop2Pct [] b = 3 -> p.Drop3Pct [] b = 4 -> p.Drop4Pct
      [] b = 5 -> p.Drop5Pct

\* the buckets <<closeDrop, lowDrop>> of day d against the close of day prev,
\* as calculateDrops gives them
BucketsAgainst(d, prev) ==
    calculateDrops(parseFloat(d.close), parseFloat(d.low), parseFloat(prev.close))

\* the days of period p, other than the first day of the whole series, whose
\* bucket (1: by close, 2: by low) against the day before them in the series is b
RunningDrops(p, b, which) ==
    {i \in 2..Len(series) :
        /\ getPeriodKey(series[i].date, periodType) = p.Period
        /\ BucketsAgainst(series[i], series[i - 1])[which] = b}

\* C19: every day of the series but its first is classified against the close
\* of the day before it, the first day of a period against the last day of the
\* period before, and is counted in the period that contains it: each counter of
\* each period is the number of its days that fall in the bucket that way.
C19_RunningPreviousClose ==
    periodType # "" =>
        \A k \in 1..Len(periods) : \A b \in 2..5 :
            /\ DropCount(periods[k], b).Close = Cardinality(RunningDrops(periods[k], b, 1))
            /\ DropCount(periods[k], b).Low = Cardinality(RunningDrops(periods[k], b, 2))

\* C19 holds of the days inside a period: a period of at least two days counts
\* a drop of its second day against the close of its first
C19_InsidePeriod ==
    /\ periodType # ""
    /\ \E k \in 1..Len(periods) : \E b \in 2..5 :
           /\ periods[k].Days >= 2
           /\ DropCount(periods[k], b).Close = 1
           /\ BucketsAgainst(MemberDays(periods[k])[2], MemberDays(periods[k])[1])[1] = b

\* the bucket of a move from prev to x (both in cents) by its exact magnitude:
\* [2,3) percent down is 2, [3,4) is 3, [4,5) is 4, 5 or more is 5, else none
ExactBucket(x, prev) ==
    IF prev <= 0 \/ x >= prev THEN 0
    ELSE IF (prev - x) * 100 >= 5 * prev THEN 5
    ELSE IF (prev - x) * 100 >= 4 * prev THEN 4
    ELSE IF (prev - x) * 100 >= 3 * prev THEN 3
    ELSE IF (prev - x) * 100 >= 2 * prev THEN 2
    ELSE 0

\* the classified days of period p (each but its first, against the close of
\* the day before it in the period) whose close, or low, moves by bucket b
ExactCloseDrops(p, b) ==
    {i \in 2..Len(MemberDays(p)) :
        ExactBucket(MemberDays(p)[i].close, MemberDays(p)[i - 1].close) = b}
ExactLowDrops(p, b) ==
    {i \in 2..Len(MemberDays(p)) :
        ExactBucket(MemberDays(p)[i].low, MemberDays(p)[i - 1].close) = b}

\* C20: the close move and the low move of each classified day go each to the
\* one bucket of their magnitude, [2,3) to 2, [3,4) to 3, [4,5) to 4, 5 or more
\* to 5, anything else to none; so the four close counters of a period, and its
\* four low counters, add up to at most Days.
C20_BucketsByMagnitude ==
    periodType # "" =>
        \A k \in 1..Len(periods) :
            /\ \A b \in 2..5 :
                   /\ DropCount(periods[k], b).Close
                          = Cardinality(ExactCloseDrops(periods[k], b))
                   /\ DropCount(periods[k], b).Low
                          = Cardinality(ExactLowDrops(periods[k], b))
            /\ periods[k].Drop2Pct.Close + periods[k].Drop3Pct.Close
                   + periods[k].Drop4Pct.Close + periods[k].Drop5Pct.Close
                   <= periods[k].Days
            /\ periods[k].Drop2Pct.Low + periods[k].Drop3Pct.Low
                   + periods[k].Drop4Pct.Low + periods[k].Drop5Pct.Low
                   <= periods[k].Days

\* C20 holds away from the edges of the buckets: a day whose close is 3.06% and
\* whose low is 4.08% under the close before is counted once in the close
\* counter of bucket 3 and once in the low counter of bucket 4
C20_InsideBuckets ==
    /\ periodType # ""
    /\ \E k \in 1..Len(periods) :
           /\ periods[k].Days = 2
           /\ MemberDays(periods[k])[1].close = 490
           /\ MemberDays(periods[k])[2].close = 475
           /\ MemberDays(periods[k])[2].low = 470
           /\ periods[k].Drop3Pct = [Close |-> 1, Low |-> 0]
           /\ periods[k].Drop4Pct = [Close |-> 0, Low |-> 1]
           /\ periods[k].Drop2Pct = [Close |-> 0, Low |-> 0]
           /\ periods[k].Drop5Pct = [Close |-> 0, Low |-> 0]

\* the elements of a sequence
Range(s) == {s[i] : i \in 1..Len(s)}

\* the largest and the smallest of a non-empty set of numbers
MaxOf(S) == CHOOSE x \in S : \A y \in S : y <= x
MinOf(S) == CHOOSE x \in S : \A y \in S : x <= y

\* C21: every period returned by AggregateToPeriods has the open of its
\* earliest day, the close of its latest day, the largest of its daily highs,
\* the smallest of its daily lows, the number of its days as Days, and its
\* earliest and latest dates as StartDate and EndDate.
C21_PeriodOHLC ==
    periodType # "" =>
        \A k \in 1..Len(periods) :
            /\ MemberDays(periods[k]) # <<>>
            /\ periods[k].Days = Len(MemberDays(periods[k]))
            /\ periods[k].Days
                   = Cardinality({i \in 1..Len(series) :
                         getPeriodKey(series[i].date, periodType) = periods[k].Period})
            /\ periods[k].StartDate
                   = MinOf({d.date : d \in Range(MemberDays(periods[k]))})
            /\ periods[k].EndDate
                   = MaxOf({d.date : d \in Range(MemberDays(periods[k]))})
            /\ \E d \in Range(MemberDays(periods[k])) :
                   d.date = periods[k].StartDate /\ periods[k].Open = d.open
            /\ \E d \in Range(MemberDays(periods[k])) :
                   d.date = periods[k].EndDate /\ periods[k].Close = d.close
            /\ periods[k].High = MaxOf({d.high : d \in Range(MemberDays(periods[k]))})
            /\ periods[k].Low = MinOf({d.low : d \in Range(MemberDays(periods[k]))})

\* a period of three days whose highest high is that of its middle day and
\* whose lowest low is that of its last day
C21_Witness ==
    /\ periodType # ""
    /\ \E k \in 1..Len(periods) :
           /\ periods[k].Days = 3
           /\ periods[k].High = MemberDays(periods[k])[2].high
           /\ periods[k].High > MemberDays(periods[k])[1].high
           /\ periods[k].High > MemberDays(periods[k])[3].high
           /\ periods[k].Low = MemberDays(periods[k])[3].low
           /\ periods[k].Low < MemberDays(periods[k])[1].low
           /\ periods[k].Open = MemberDays(periods[k])[1].open
           /\ periods[k].Close = MemberDays(periods[k])[3].close

\* C22: AggregateToPeriods returns one period for each distinct key of the
\* days given, newest first, and the order of the key strings is the order of
\* the periods in time: the key of each period is greater than the key of the
\* period after it, and its StartDate is later than that period's EndDate.
C22_OnePerKeyNewestFirst ==
    periodType # "" =>
        /\ {periods[k].Period : k \in 1..Len(periods)}
               = {getPeriodKey(series[i].date, periodType) : i \in 1..Len(series)}
        /\ \A j, k \in 1..Len(periods) : periods[j].Period = periods[k].Period => j = k
        /\ \A k \in 1..(Len(periods) - 1) :
               /\ KeyLess(periods[k + 1].Period, periods[k].Period)
               /\ periods[k].StartDate > periods[k + 1].EndDate

\* weeks on both sides of a new year: the week 2025-W01 that begins in 2024
\* comes before the week 2024-W52 in the output
C22_Witness ==
    /\ periodType = PeriodWeekly
    /\ Len(periods) = 2
    /\ periods[1].Period = Decimal(2025) \o Hyphen \o LetterW \o Pad(Decimal(1), 2)
    /\ periods[2].Period = Decimal(2024) \o Hyphen \o LetterW \o Pad(Decimal(52), 2)
    /\ Year(periods[1].StartDate) = 2024
    /\ periods[1].Days = 2

\* the period of the request a handler answered is not one the server knows:
\* neither "daily" nor a name that ParsePeriodType accepts
InvalidPeriod ==
    /\ resp.handler # ""
    /\ resp.period # Name.daily
    /\ ParsePeriodType(resp.period).err # NoErr

\* C23: a request with an unrecognized period is answered with an error before
\* any fetch or aggregation: ParsePeriodType gives an error for every string
\* outside its accepted names, and neither handler calls fetchStockData or
\* AggregateToPeriods, or sends any data, for such a period.
C23_InvalidPeriodRejected ==
    /\ \A str \in PeriodParams :
           ParsePeriodType(str).err = NoErr
               <=> str \in {Name.weekly, Name.monthly, Name.quarterly, Name.yearly,
                            First(Name.weekly, 4), <<87>>,
                            <<87, 101, 101, 107, 108, 121>>,
                            <<87, 69, 69, 75, 76, 89>>, <<77, 111, 110, 116, 104>>,
                            <<81>>, <<121>>}
    /\ resp.status # 0 /\ InvalidPeriod =>
           /\ resp.status >= 400
           /\ ~resp.fetched
           /\ ~resp.aggregated
           /\ resp.data = <<>>
           /\ resp.periodData = <<>>

\* /api/stock rejects an unrecognized period with status 400 and fetches
\* nothing
C23_StockRejects ==
    /\ resp.handler = "stock"
    /\ resp.method = "GET"
    /\ resp.symbol # <<>>
    /\ InvalidPeriod
    /\ resp.status = 400
    /\ ~resp.fetched
    /\ ~resp.aggregated

\* C24 as stated: after a Provider call that succeeded, the series returned is
\* what the cache holds for the requested range [today - days, today].
C24_ResultIsCacheRange ==
    \A p \in Procs :
        Done(p) /\ cacheOn /\ ProviderAnswered(p) => ret[p].data = RangeNow(p)

\* C24: after a Provider call that succeeded, the series returned is what the
\* cache holds for the requested range whenever the read of that range succeeds
\* and finds a row, rows of earlier fetches included; when the read fails or
\* finds no row in the range, it is the provider's payload as fetched.
C24_ResultIsCacheRangeOrPayload ==
    \A p \in Procs :
        Done(p) /\ cacheOn /\ ProviderAnswered(p)
            => /\ req[p].backRead # "error"
                   => (req[p].backRead = "rows" <=> RangeNow(p) # <<>>)
               /\ IF req[p].backRead = "rows"
                  THEN /\ ret[p].data = RangeNow(p)
                       /\ DatesOf(ret[p].data)
                              = {r.date : r \in {x \in daily_prices :
                                                  /\ x.symbol = req[p].symbol
                                                  /\ x.date >= req[p].startDate
                                                  /\ x.date <= req[p].today}}
                  ELSE ret[p].data = req[p].prov.data

\* a delta fetch returned a row of the requested range that its payload does
\* not hold
C24_Witness ==
    \E p \in Procs :
        /\ Done(p) /\ cacheOn /\ ProviderAnswered(p)
        /\ req[p].backRead = "rows"
        /\ req[p].asked < req[p].days
        /\ \E d \in DatesOf(ret[p].data) : d \notin DatesOf(req[p].prov.data)

\* the table with, next to each row, a row of another symbol for the same date
WithOtherSymbol(tbl) == tbl \cup {[r EXCEPT !.symbol = "MSFT", !.close = @ + 1] : r \in tbl}

\* the stored values of the rows of a symbol with startDate <= date <= endDate
StoredIn(tbl, symbol, startDate, endDate) ==
    {[date |-> r.date, open |-> r.open, high |-> r.high, low |-> r.low,
      close |-> r.close, volume |-> r.volume, pe |-> r.pe] :
        r \in {x \in tbl : x.symbol = symbol /\ x.date >= startDate /\ x.date <= endDate}}

\* the contract of GetDailyPrices for one range and symbol: read is what it
\* returned, stored the values of the rows of the range
ReadsStored(read, stored) ==
    /\ read.err = NoErr
    /\ ValuesOf(read.data) = stored
    /\ Len(read.data) = Cardinality(stored)
    /\ \A i \in 1..(Len(read.data) - 1) : read.data[i].date > read.data[i + 1].date

\* the ranges that begin and end at a stored date, before the first or after the
\* last
ProbeDates(tbl) == {r.date : r \in tbl} \cup {0 - 1, MaxDay + 2}
ProbeRanges(tbl) == {r \in ProbeDates(tbl) \X ProbeDates(tbl) : r[1] <= r[2]}
ReadContractOn(tbl, all, ranges) ==
    \A r \in ranges :
        /\ \A symbol \in Symbols :
               ReadsStored(GetDailyPrices(all, symbol, r[1], r[2], NoFail),
                           StoredIn(tbl, symbol, r[1], r[2]))
        /\ GetDailyPrices(tbl, "NONEXISTENT", r[1], r[2], NoFail)
               = [data |-> <<>>, err |-> NoErr]
ReadContract(tbl) == ReadContractOn(tbl, WithOtherSymbol(tbl), ProbeRanges(tbl))

\* C25: GetDailyPrices(symbol, start, end) returns exactly the stored rows of
\* the symbol with start <= date <= end, newest first, with the stored open,
\* high, low, close, volume and P/E as they are, and an empty result without
\* error for a symbol that has no rows; for every range, on every table that a
\* store leaves.
C25_ReadReturnsStoredRange ==
    [][daily_prices' # daily_prices => ReadContract(daily_prices')]_vars

\* a call was served, newest first, the rows of its range by a read while the
\* cache held an older row of the symbol outside the range
C25_Witness ==
    \E p \in Procs :
        /\ ServedByRead(p)
        /\ Len(ret[p].data) >= 2
        /\ ret[p].data[1].date > ret[p].data[2].date
        /\ ValuesOf(ret[p].data)
               = StoredIn(daily_prices, req[p].symbol, req[p].startDate, req[p].today)
        /\ \E r \in daily_prices : r.symbol = req[p].symbol /\ r.date < req[p].startDate

\* v hundredths of a percent is the percentage move of c over p > 0, to the
\* nearest hundredth
NearestPct(v, c, p) ==
    /\ 2 * (v * p - (c - p) * 10000) <= p
    /\ 2 * ((c - p) * 10000 - v * p) <= p

\* C26: the Change of each period is the percentage move of its Close over the
\* Close of the period before it in time, which is the next one of the output,
\* and the oldest period of the output has an empty Change.
C26_ChangeOverPreviousPeriod ==
    periodType # "" =>
        \A k \in 1..Len(periods) :
            IF k = Len(periods)
            THEN periods[k].Change = Empty
            ELSE /\ periods[k].Change # Empty
                 /\ NearestPct(periods[k].Change[1], periods[k].Close, periods[k + 1].Close)

\* three periods: the oldest without a Change, the two after it with different
\* moves, the newest one falling against the period before it although it rose
\* against the oldest
C26_Witness ==
    /\ periodType # ""
    /\ Len(periods) = 3
    /\ periods[3].Change = Empty
    /\ periods[2].Change # Empty
    /\ periods[1].Change # Empty
    /\ periods[1].Close < periods[2].Close
    /\ periods[1].Close > periods[3].Close
    /\ periods[1].Change[1] < 0

\* the row of the symbol's table for a date, as a set (empty when none)
RowsAt(tbl, symbol, date) ==
    {r \in tbl : r.symbol = symbol /\ r.date = date}

\* C27: under concurrent calls daily_prices holds one row per (symbol, date),
\* and every change of the table is one committed StoreDailyPrices applied
\* whole: each date of its batch ends up with exactly the row of the batch's
\* record (all eight fields), every other row stays as it was, and a store
\* that failed changes nothing.  By induction each row is the record of the
\* last committed store that included its date.
C27_LastWriterWholeRows ==
    [][/\ Cardinality(KeysOf(daily_prices')) = Cardinality(daily_prices')
       /\ daily_prices' # daily_prices
            => \E p \in Procs :
                 LET data == req[p].prov.data
                     s == req[p].symbol
                 IN /\ pc[p] = "store" /\ pc'[p] = "log"
                    /\ req'[p].store = NoErr
                    /\ \A i \in 1..Len(data) :
                          RowsAt(daily_prices', s, data[i].date)
                              = {PriceRow(s, data[i])}
                    /\ \A r \in daily_prices \cup daily_prices' :
                          (r.symbol # s \/ r.date \notin DatesOf(data))
                              => (r \in daily_prices /\ r \in daily_prices')]_vars

\* two calls for one symbol are in flight together, both have fetched and
\* stored and neither has written fetch_log yet; their payloads hold a record
\* for the same date with different fields, and the table holds the one
\* writer's record for it, whole
C27_Witness ==
    \E p \in Procs : \E q \in Procs \ {p} :
        /\ pc[p] = "log" /\ pc[q] = "log"
        /\ req[p].symbol = req[q].symbol
        /\ req[p].store = NoErr /\ req[q].store = NoErr
        /\ \E i \in 1..Len(req[p].prov.data) : \E j \in 1..Len(req[q].prov.data) :
              LET a == PriceRow(req[p].symbol, req[p].prov.data[i])
                  b == PriceRow(req[q].symbol, req[q].prov.data[j])
              IN /\ a.date = b.date
                 /\ a # b
                 /\ RowsAt(daily_prices, a.symbol, a.date) = {b}

\* p and q are two calls for one symbol that read the same fetch_log entry at
\* their start and have both written fetch_log since
BothLogged(p, q) ==
    /\ p # q
    /\ pc[p] \in {"read", "done"} /\ pc[q] \in {"read", "done"}
    /\ req[p].symbol = req[q].symbol
    /\ req[p].meta = req[q].meta
    /\ req[p].log = NoErr /\ req[q].log = NoErr

\* the earliest of the date logged before the two calls and of the earliest
\* dates of their two payloads
WidestOf(p, q) ==
    LET both == Min(Earliest(req[p].prov.data), Earliest(req[q].prov.data))
    IN IF req[p].meta = Nil THEN both ELSE Min(req[p].meta.earliest_date, both)

\* C28 as stated: when two calls for one symbol both read fetch_log before
\* either writes it, the earliest_date left in fetch_log after both have
\* written is the minimum of the value they read and of the earliest dates of
\* both payloads.
C28_NoWideningLost ==
    \A p \in Procs : \A q \in Procs :
        BothLogged(p, q)
            => \E m \in fetch_log :
                  /\ m.symbol = req[p].symbol
                  /\ m.earliest_date = WidestOf(p, q)

\* two such calls have written fetch_log after fetching payloads that start on
\* different dates
C28_BothWidened ==
    \E p \in Procs : \E q \in Procs :
        /\ BothLogged(p, q)
        /\ Earliest(req[p].prov.data) # Earliest(req[q].prov.data)

\* the Provider call of p failed
ProviderFailed(p) == req[p].calls = 1 /\ req[p].prov.err # NoErr

\* the entry of fetch_log is missing or not fresh at time t
Stale(meta, t) == meta = Nil \/ ~IsFresh(meta, t)

\* a call for the range startDate..today at time t goes to the Provider: the
\* entry is missing, stale or does not cover the range, or the rows read for
\* the cache hit are none
WouldFetch(tbl, meta, symbol, startDate, today, t) ==
    \/ Stale(meta, t)
    \/ ~CoversRange(meta, startDate)
    \/ ~Serves(GetDailyPrices(tbl, symbol, startDate, today, NoFail))

\* C29: a call whose Provider call failed goes to the stale read or returns
\* the error, and no step from that failure to its return changes
\* daily_prices or fetch_log: the entry of the symbol, last_fetched included,
\* is the one the call read at its start.  An entry that was missing or stale
\* at the start of the call is still missing or stale, and when the caller
\* repeats the request the repeated call goes to the Provider again.
C29_FailedFetchLeavesCache ==
    [][\A p \in Procs :
         /\ (ProviderReturns(p) /\ req'[p].prov.err # NoErr)
               => /\ pc'[p] \in {"stale", "done"}
                  /\ UNCHANGED <<daily_prices, fetch_log>>
         /\ (ProviderFailed(p) /\ pc[p] # "idle")
               => /\ UNCHANGED <<daily_prices, fetch_log>>
                  /\ FetchMetaOf(fetch_log', req[p].symbol) = req[p].meta
                  /\ ~req[p].fresh
                        => Stale(FetchMetaOf(fetch_log', req[p].symbol), now')
                  /\ pc'[p] = "meta"
                        => WouldFetch(daily_prices',
                                      FetchMetaOf(fetch_log', req'[p].symbol),
                                      req'[p].symbol, req'[p].startDate,
                                      req'[p].today, now')]_vars

\* a call that found a stale entry has returned after its Provider call
\* failed, with the stale rows; fetch_log still holds the entry it read
C29_Witness ==
    \E p \in Procs :
        /\ Done(p)
        /\ ProviderFailed(p)
        /\ req[p].meta # Nil
        /\ ~req[p].fresh
        /\ req[p].staleRead = "rows"
        /\ req[p].meta \in fetch_log
        /\ daily_prices # {}

\* the dates of the rows stored for a symbol
StoredDates(symbol) == {r.date : r \in {x \in daily_prices : x.symbol = symbol}}

\* no call is running
AllReturned == \A p \in Procs : pc[p] \in {"idle", "done"}

\* C30: with calls made one at a time and a storage that never fails, whenever
\* no call is running the earliest_date logged for a symbol is the least date
\* among the rows stored for it, and a symbol without an entry has no rows.
C30_EarliestIsLeastStored ==
    AllReturned
        => \A s \in Symbols :
              LET meta == FetchMetaOf(fetch_log, s)
              IN IF meta = Nil
                 THEN StoredDates(s) = {}
                 ELSE /\ meta.earliest_date \in StoredDates(s)
                      /\ \A d \in StoredDates(s) : meta.earliest_date <= d

\* a delta fetch on a later day has returned: its payload starts after the
\* earliest_date logged before, and the entry it wrote keeps that date
C30_Witness ==
    \E p \in Procs :
        /\ Done(p)
        /\ DeltaFetched(p)
        /\ req[p].log = NoErr
        /\ Earliest(req[p].prov.data) > req[p].meta.earliest_date
        /\ \E m \in fetch_log :
              /\ m.last_fetched > req[p].meta.last_fetched
              /\ m.earliest_date = req[p].meta.earliest_date
              /\ m.earliest_date \in StoredDates(req[p].symbol)

====
